---- MODULE Spec2Model ----
(***************************************************************************)
(* Model of the Hue light/group state module, in its two variants:        *)
(*   "api"    src/module-custom-api-module_utils/library/hue.py (main,     *)
(*            build_state) with module_utils/hue.py (class Hue)            *)
(*   "pyhue"  src/module-python-hue/library/hue.py (main; its build_state  *)
(*            is the same text), on top of the python-hue library          *)
(* One behaviour is a sequence of invocations of one variant with the same *)
(* task arguments against one bridge.  Every bridge call (GET config, GET  *)
(* state, PUT state) is a step of its own and is appended to netlog.       *)
(*                                                                         *)
(* Further specifications over the same variables:                         *)
(*   BuildSpec  one call of build_state                                    *)
(*   RegSpec    src/module-custom-api-module_utils/library/hue_register.py *)
(*   ScanSpec   src/module-custom-api/library/hue_search.py                *)
(*   TokenSpec  the clients of the four modules built on one host          *)
(*   HexSpec    one call of hex2rgb                                        *)
(*   GroupSpec  src/module-custom-api/library/hue_group.py                 *)
(*                                                                         *)
(* Python values: None is <<>> and a present value v is <<v>>; a str that  *)
(* the code slices (ids such as 'l1') is a sequence of one-character       *)
(* strings; a dict is a function whose DOMAIN is its key set.              *)
(***************************************************************************)
EXTENDS Integers, Sequences, FiniteSets, TLC

VARIABLES
    variant,        \* which module runs: "api" or "pyhue"
    cache,          \* pyhue: the_light.state of every light read so far
    args,           \* the options the task supplies (key -> value)
    check_mode,     \* module.check_mode of the running invocation
    bridge,         \* the bridge: lights, groups, ids listed in its config
    pc,             \* position of main()
    params,         \* module.params
    hue_config,     \* main: hue_config
    thing_id,       \* main: thing_id (None or <<id>>)
    ids_to_check,   \* main: ids_to_check
    thing_state,    \* main: object fetched by the last hue.get_state at 285
    target_states,  \* main: target_states
    final_states,   \* main: final_states
    changed,        \* main: changed
    failed,         \* main: failed
    result,         \* what exit_json / fail_json reported
    i,              \* main: position of the loop at 284 in ids_to_check
    todo,           \* main: keys of target_states the loop at 300 has left
    target_thing,   \* main: target_thing of the loop at 300
    netlog,         \* bridge requests of the running invocation, in order
    applied,        \* the bridge stored every field of the last PUT
    run,            \* number of the running invocation
    prev,           \* summary of the previous invocation
    host,           \* what socket.getfqdn() returns on the control host
    num_retries,    \* hue_register main: num_retries
    time_left,      \* hue_search add_new_lights: time_left
    last_res        \* hue_register / hue_search main: res

vars == <<variant, cache, args, check_mode, bridge, pc, params, hue_config, thing_id,
          ids_to_check, thing_state, target_states, final_states, changed,
          failed, result, i, todo, target_thing, netlog, applied, run, prev,
          host, num_retries, time_left, last_res>>

\* the variables of the other modules, which the light/group state module
\* does not have
others == <<host, num_retries, time_left, last_res>>

(***************************************************************************)
(* Bounds                                                                  *)
(***************************************************************************)
\* invocations of the module in one behaviour
MaxRuns == 2
\* options a task supplies that deviate from the task {id: l1}
MaxDeviations == 1

(***************************************************************************)
(* Python helpers                                                          *)
(***************************************************************************)
None == <<>>
Some(v) == <<v>>
EmptyDict == <<>>

\* d[k] = v on a dict
DictSet(d, k, v) == [x \in DOMAIN d \cup {k} |-> IF x = k THEN v ELSE d[x]]

\* dict.update restricted to the keys ks
DictUpdate(d, e, ks) ==
    [x \in DOMAIN d \cup (DOMAIN e \cap ks) |->
        IF x \in DOMAIN e \cap ks THEN e[x] ELSE d[x]]

\* s.startswith(c) for a one-character c
startswith(s, c) == Len(s) > 0 /\ s[1] = c

\* s[1:]
Slice1(s) == IF Len(s) = 0 THEN <<>> ELSE Tail(s)

L1 == <<"l", "1">>
L2 == <<"l", "2">>
L9 == <<"l", "9">>
G0 == <<"g", "0">>
G1 == <<"g", "1">>
G9 == <<"g", "9">>
X1 == <<"x", "1">>
ALL == <<"a", "l", "l">>
EMPTY == <<>>

(***************************************************************************)
(* The bridge (external): what it stores and how it answers.  What it      *)
(* reports changes only while it serves a PUT: it stores the fields, and   *)
(* the light written to may drop off the network at that moment.           *)
(***************************************************************************)
\* state fields the bridge stores and reports for a light or a group
BridgeFields == {"on", "bri", "hue", "sat", "xy", "ct", "alert", "effect"}

LightObj(name, on, reachable) ==
    [name |-> name, state |-> [on |-> on, bri |-> 100, reachable |-> reachable]]

GroupObj(name, on) ==
    [name |-> name, action |-> [on |-> on, bri |-> 100]]

\* two lights, group 0 (every light) and group 1; the config document
\* lists group 1 and, on some bridges, group 0
Bridges ==
    { [lights |-> (<<"1">> :> LightObj("Lamp", lon, reach1)) @@
                  (<<"2">> :> LightObj("Desk", TRUE, reach2)),
       groups |-> (<<"0">> :> GroupObj("House", lon)) @@
                  (<<"1">> :> GroupObj(gname, lon)),
       listed |-> ls] :
        lon \in BOOLEAN, reach1 \in BOOLEAN, reach2 \in BOOLEAN,
        gname \in {"Lamp", "Den"}, ls \in {{<<"1">>}, {<<"0">>, <<"1">>}} }

\* the bridges of the api runs: no request of the model names light 2
ApiBridges ==
    { b \in Bridges : b.lights[<<"2">>].state.reachable }

\* the bridges of the pyhue runs: that module does not look at groups
LightBridges ==
    { b \in Bridges : b.groups[<<"1">>].name = "Den" /\ b.listed = {<<"1">>} }

\* answers to a PUT: a list of items, each given by its key set
Responses == { << {"success"} >>, << {"success"}, {"error"} >>, << {"failed"} >> }

AllSuccess(res) == \A n \in 1..Len(res) : res[n] = {"success"}

(***************************************************************************)
(* class Hue                                                               *)
(***************************************************************************)
check_success(res) ==
    ~ \E n \in 1..Len(res) : "failed" \in res[n]

\* the JSON document GET /api/<token> returns
get_config(b) ==
    [lights |-> b.lights,
     groups |-> [g \in b.listed |-> b.groups[g]]]

\* path below /api/<token> that get_state requests; <<"invalid">> raises
get_state_url(target) ==
    IF startswith(target, "l") THEN <<"lights", Slice1(target)>>
    ELSE IF startswith(target, "g") THEN <<"groups", Slice1(target)>>
    ELSE <<"invalid">>

\* variant: the write goes to the 'state' sub-resource whatever the target
set_state_url_state(target) ==
    IF startswith(target, "l") THEN <<"lights", Slice1(target), "state">>
    ELSE IF startswith(target, "g") THEN <<"groups", Slice1(target), "state">>
    ELSE <<"invalid">>

set_state_url(target) ==
    IF startswith(target, "l") THEN <<"lights", Slice1(target), "state">>
    ELSE IF startswith(target, "g") THEN <<"groups", Slice1(target), "action">>
    ELSE <<"invalid">>

\* the object the bridge returns for a get_state of target
get_state(b, target) ==
    IF startswith(target, "l") THEN b.lights[Slice1(target)]
    ELSE b.groups[Slice1(target)]

\* the bridge after it stored state for target
Stored(b, target, state) ==
    IF startswith(target, "l")
    THEN [b EXCEPT !.lights[Slice1(target)].state =
                DictUpdate(@, state, BridgeFields)]
    ELSE [b EXCEPT !.groups[Slice1(target)].action =
                DictUpdate(@, state, BridgeFields)]

\* the bridge after the light behind target stopped answering it
Unplugged(b, target) ==
    IF startswith(target, "l")
    THEN [b EXCEPT !.lights[Slice1(target)].state.reachable = FALSE]
    ELSE b

\* the bridge after a PUT of state to target that it answered with res;
\* lost: the light dropped off the network while the PUT was served
AfterPut(b, target, state, res, lost) ==
    LET b1 == IF AllSuccess(res) THEN Stored(b, target, state) ELSE b
    IN IF lost THEN Unplugged(b1, target) ELSE b1

(***************************************************************************)
(* build_state                                                             *)
(***************************************************************************)
\* variant: the transition time is compared as well
STATE_FIELDS_transition ==
    <<"on", "bri", "hue", "sat", "xy", "ct", "alert", "effect", "transitiontime">>

\* line 107
STATE_FIELDS == <<"on", "bri", "hue", "sat", "xy", "ct", "alert", "effect">>

\* value of a hexadecimal digit, -1 for any other character
HexVal(c) ==
    CASE c = "0" -> 0 [] c = "1" -> 1 [] c = "2" -> 2 [] c = "3" -> 3
      [] c = "4" -> 4 [] c = "5" -> 5 [] c = "6" -> 6 [] c = "7" -> 7
      [] c = "8" -> 8 [] c = "9" -> 9
      [] c \in {"a", "A"} -> 10 [] c \in {"b", "B"} -> 11
      [] c \in {"c", "C"} -> 12 [] c \in {"d", "D"} -> 13
      [] c \in {"e", "E"} -> 14 [] c \in {"f", "F"} -> 15
      [] OTHER -> -1

\* int(s, 16) of a two-character str: None when it raises ValueError.
\* int() takes a sign before the digits and blanks around them.
int16(s) ==
    LET a == HexVal(s[1])
        b == HexVal(s[2])
    IN IF a >= 0 /\ b >= 0 THEN Some(16 * a + b)
       ELSE IF s[1] \in {"+", " "} /\ b >= 0 THEN Some(b)
       ELSE IF s[1] = "-" /\ b >= 0 THEN Some(0 - b)
       ELSE IF a >= 0 /\ s[2] = " " THEN Some(a)
       ELSE None

\* str.lstrip('#'): every leading '#' goes
RECURSIVE lstrip(_)
lstrip(s) == IF Len(s) > 0 /\ s[1] = "#" THEN lstrip(Tail(s)) ELSE s

\* lines 109-115; None when the assert or int() raises
hex2rgb(hex) ==
    LET h == lstrip(hex) IN
    IF Len(h) # 6 THEN None
    ELSE LET r == int16(SubSeq(h, 1, 2))
             g == int16(SubSeq(h, 3, 4))
             b == int16(SubSeq(h, 5, 6))
         IN IF r = None \/ g = None \/ b = None THEN None
            ELSE Some(<<r[1], g[1], b[1]>>)

\* lines 117-128 on exact fractions: [x, y] with x = <<X, X+Y+Z>> and
\* y = <<Y, X+Y+Z>> in units of 10^-7; None when X+Y+Z = 0 and the division
\* raises ZeroDivisionError
rgb2xy(r, g, b) ==
    LET X == 7161046 * r + 1009296 * g + 1471858 * b
        Y == 2581874 * r + 7249378 * g + 168748 * b
        Z == 517813 * g + 7734287 * b
    IN IF X + Y + Z = 0 THEN None
       ELSE Some(<< <<X, X + Y + Z>>, <<Y, X + Y + Z>> >>)

\* str.lower() on the values the model uses
lower(s) == IF s = "Select" THEN "select" ELSE s

\* p.get(k, None)
ParamGet(p, k) == IF k \in DOMAIN p THEN p[k] ELSE None

\* lines 184-189: x, y = params['xy'] and both in [0.0, 1.0]
XyValid(xy) ==
    /\ xy # None
    /\ Len(xy[1]) = 2
    /\ xy[1][1] >= 0 /\ xy[1][1] <= 1
    /\ xy[1][2] >= 0 /\ xy[1][2] <= 1

\* variant: the assignment of line 138 is left out
BaseState_withoutOn(p) ==
    LET s0 == EmptyDict
        s1 == IF ParamGet(p, "brightness") # None
              THEN DictSet(s0, "bri", p["brightness"][1]) ELSE s0
        s2 == IF ParamGet(p, "alert") # None
              THEN DictSet(s1, "alert", lower(p["alert"][1])) ELSE s1
        s3 == IF ParamGet(p, "effect") # None
              THEN DictSet(s2, "effect", lower(p["effect"][1])) ELSE s2
        s4 == IF ParamGet(p, "transition_time") # None
              THEN DictSet(s3, "transitiontime", p["transition_time"][1]) ELSE s3
    IN s4

\* lines 135-164: on, bri, alert, effect, transitiontime
BaseState(p) ==
    LET s0 == DictSet(EmptyDict, "on", ParamGet(p, "on")[1])
        s1 == IF ParamGet(p, "brightness") # None
              THEN DictSet(s0, "bri", p["brightness"][1]) ELSE s0
        s2 == IF ParamGet(p, "alert") # None
              THEN DictSet(s1, "alert", lower(p["alert"][1])) ELSE s1
        s3 == IF ParamGet(p, "effect") # None
              THEN DictSet(s2, "effect", lower(p["effect"][1])) ELSE s2
        s4 == IF ParamGet(p, "transition_time") # None
              THEN DictSet(s3, "transitiontime", p["transition_time"][1]) ELSE s3
    IN s4

\* variant: an rgb value is handed on as an 'rgb' field for the bridge
\* library to convert
ColorState_rgbField(p, s) ==
    LET h1 == IF ParamGet(p, "hue") # None
              THEN DictSet(s, "hue", p["hue"][1]) ELSE s
        h2 == IF ParamGet(p, "saturation") # None
              THEN DictSet(h1, "sat", p["saturation"][1]) ELSE h1
        h3 == IF ParamGet(p, "rgb") # None
              THEN DictSet(h2, "rgb", p["rgb"][1]) ELSE h2
    IN [err |-> "", state |-> h3]

\* lines 166-196: the colour mode; [err, state]
ColorState(p, s) ==
    IF "hue" \in DOMAIN p \/ "saturation" \in DOMAIN p
    THEN LET h1 == IF ParamGet(p, "hue") # None
                   THEN DictSet(s, "hue", p["hue"][1]) ELSE s
             h2 == IF ParamGet(p, "saturation") # None
                   THEN DictSet(h1, "sat", p["saturation"][1]) ELSE h1
         IN [err |-> "", state |-> h2]
    ELSE IF "xy" \in DOMAIN p \/ "rgb" \in DOMAIN p
    THEN IF "rgb" \in DOMAIN p
         \* line 180 calls rgb2xyz, a name defined nowhere: NameError,
         \* caught by the bare except at 181
         THEN [err |-> "invalid_rgb", state |-> s]
         ELSE IF XyValid(p["xy"])
              THEN [err |-> "", state |-> DictSet(s, "xy", p["xy"][1])]
              ELSE [err |-> "invalid_xy", state |-> s]
    ELSE IF "color_temp" \in DOMAIN p
    \* lines 194-195 only warn about a value outside 153..500
    THEN [err |-> "", state |-> DictSet(s, "ct", p["color_temp"][1])]
    ELSE [err |-> "", state |-> s]

\* variant: a field the current state does not have is not compared
StateChanged_presentOnly(ts, cur_state) ==
    \E n \in 1..Len(STATE_FIELDS) :
        LET field == STATE_FIELDS[n] IN
            /\ field \in DOMAIN ts
            /\ field \in DOMAIN cur_state
            /\ cur_state[field] # ts[field]

\* lines 198-205
StateChanged(ts, cur_state) ==
    \E n \in 1..Len(STATE_FIELDS) :
        LET field == STATE_FIELDS[n] IN
            /\ field \in DOMAIN ts
            /\ (field \notin DOMAIN cur_state \/ cur_state[field] # ts[field])

\* [err, changed, state]; err # "" is a fail_json
build_state(p, cur_state) ==
    IF ParamGet(p, "alert") # None
       /\ lower(p["alert"][1]) \notin {"none", "select", "lselect"}
    THEN [err |-> "invalid_alert", changed |-> FALSE, state |-> EmptyDict]
    ELSE IF ParamGet(p, "effect") # None
            /\ lower(p["effect"][1]) \notin {"none", "colorloop"}
    THEN [err |-> "invalid_effect", changed |-> FALSE, state |-> EmptyDict]
    ELSE LET c == ColorState(p, BaseState(p)) IN
         IF c.err # ""
         THEN [err |-> c.err, changed |-> FALSE, state |-> EmptyDict]
         ELSE [err |-> "", changed |-> StateChanged(c.state, cur_state),
               state |-> c.state]

(***************************************************************************)
(* AnsibleModule(argument_spec, ...) at lines 211-230                      *)
(***************************************************************************)
ArgSpecKeys ==
    {"id", "name", "on", "brightness", "hue", "saturation", "xy",
     "color_temp", "rgb", "alert", "effect", "transition_time"}

\* more than one option of the tuple ks is supplied
Exclusive(a, ks) == Cardinality(DOMAIN a \cap ks) > 1

\* choices, mutually_exclusive and required_one_of of lines 223-228
ArgsValid(a) ==
    /\ "alert" \in DOMAIN a => a["alert"] \in {"none", "select", "lselect"}
    /\ "effect" \in DOMAIN a => a["effect"] \in {"none", "colorloop"}
    /\ ~ Exclusive(a, {"id", "name"})
    /\ ~ Exclusive(a, {"hue", "xy", "color_temp", "rgb"})
    /\ ~ Exclusive(a, {"saturation", "xy", "color_temp", "rgb"})
    /\ DOMAIN a \cap {"id", "name"} # {}

\* pyhue, lines 208-225: no id option, name is required
PH_ArgsValid(a) ==
    /\ "id" \notin DOMAIN a
    /\ "name" \in DOMAIN a
    /\ "alert" \in DOMAIN a => a["alert"] \in {"none", "select", "lselect"}
    /\ "effect" \in DOMAIN a => a["effect"] \in {"none", "colorloop"}
    /\ ~ Exclusive(a, {"hue", "xy", "color_temp", "rgb"})
    /\ ~ Exclusive(a, {"saturation", "xy", "color_temp", "rgb"})

\* module.params: every option of argument_spec is a key; an option the
\* task does not supply holds its default (on: True) or None, which is what
\* lines 244-246 read (params['id'] is None when only name is given)
ModuleParams(a) ==
    [k \in ArgSpecKeys |->
        IF k \in DOMAIN a THEN Some(a[k])
        ELSE IF k = "on" THEN Some(TRUE) ELSE None]

\* pyhue: module.params of the argument_spec at lines 209-222
PH_ModuleParams(a) ==
    [k \in ArgSpecKeys \ {"id"} |->
        IF k \in DOMAIN a THEN Some(a[k])
        ELSE IF k = "on" THEN Some(TRUE) ELSE None]

(***************************************************************************)
(* Task arguments drawn for the model                                      *)
(***************************************************************************)
BaseTarget == [id |-> L1]

Targets ==
    {BaseTarget}
    \cup { [id |-> x] : x \in {L9, G1, G0, G9, ALL, X1, EMPTY} }
    \cup { [name |-> n] : n \in {"Lamp", "Den", "House", "all", "Nope"} }
    \cup { EmptyDict, [id |-> L1, name |-> "Lamp"] }

Options ==
    { <<"on", FALSE>>,
      <<"brightness", 200>>,
      <<"alert", "select">>, <<"alert", "blink">>,
      <<"effect", "colorloop">>,
      <<"transition_time", 4>>,
      <<"hue", 1000>>, <<"saturation", 200>>,
      <<"xy", <<0, 1>> >>, <<"xy", <<1>> >>,
      <<"rgb", <<"z", "z">> >>,
      <<"color_temp", 600>> }

OptionSets ==
    { S \in SUBSET Options :
        /\ Cardinality(S) <= MaxDeviations
        /\ \A o1 \in S, o2 \in S : o1[1] = o2[1] => o1 = o2 }

ArgsOf(t, S) ==
    [k \in DOMAIN t \cup { o[1] : o \in S } |->
        IF k \in DOMAIN t THEN t[k]
        ELSE (CHOOSE o \in S : o[1] = k)[2]]

Requests ==
    { ArgsOf(t, S) : <<t, S>> \in
        { ts \in Targets \X OptionSets :
            Cardinality(ts[2]) + (IF ts[1] = BaseTarget THEN 0 ELSE 1)
                <= MaxDeviations } }

\* pyhue: the name is a key of h.lights ('l1') or 'all'
PH_BaseTarget == [name |-> L1]

PH_Targets ==
    { [name |-> n] : n \in {L1, L2, L9, G1, ALL} } \cup { EmptyDict }

PH_Requests ==
    { ArgsOf(t, S) : <<t, S>> \in
        { ts \in PH_Targets \X OptionSets :
            Cardinality(ts[2]) + (IF ts[1] = PH_BaseTarget THEN 0 ELSE 1)
                <= MaxDeviations } }

(***************************************************************************)
(* main                                                                    *)
(***************************************************************************)
NoResult ==
    [status |-> "none", msg |-> "", changed |-> FALSE, light_states |-> EmptyDict]

NoPrev ==
    [built |-> FALSE, check |-> FALSE, changed |-> FALSE, wrote |-> FALSE,
     applied |-> FALSE]

\* one bridge call: the request and what the bridge answered
Request(method, url, body, reply) ==
    [method |-> method, url |-> url, body |-> body, reply |-> reply]

Init ==
    /\ \/ variant = "api" /\ args \in Requests /\ bridge \in ApiBridges
       \/ variant = "pyhue" /\ args \in PH_Requests /\ bridge \in LightBridges
    /\ cache = EmptyDict
    /\ check_mode \in BOOLEAN
    /\ pc = "start"
    /\ params = EmptyDict
    /\ hue_config = EmptyDict
    /\ thing_id = None
    /\ ids_to_check = <<>>
    /\ thing_state = EmptyDict
    /\ target_states = EmptyDict
    /\ final_states = EmptyDict
    /\ changed = FALSE
    /\ failed = FALSE
    /\ result = NoResult
    /\ i = 1
    /\ todo = {}
    /\ target_thing = EMPTY
    /\ netlog = <<>>
    /\ applied = FALSE
    /\ run = 1
    /\ prev = NoPrev
    /\ host = EMPTY
    /\ num_retries = 0
    /\ time_left = 0
    /\ last_res = None

\* module.fail_json(msg=..., light_states=...): the process exits
fail_json(msg, states) ==
    /\ pc' = "done"
    /\ result' = [status |-> "fail", msg |-> msg, changed |-> FALSE,
                  light_states |-> states]

\* module.exit_json(changed=..., light_states=...)
exit_json(c, states) ==
    /\ pc' = "done"
    /\ result' = [status |-> "ok", msg |-> "", changed |-> c,
                  light_states |-> states]

\* lines 211-230 (pyhue 208-225): the front end checks the arguments and
\* fills module.params
ParseArgs ==
    /\ pc = "start"
    /\ IF (IF variant = "api" THEN ArgsValid(args) ELSE PH_ArgsValid(args))
       THEN /\ params' = (IF variant = "api" THEN ModuleParams(args)
                          ELSE PH_ModuleParams(args))
            /\ pc' = "connect"
            /\ UNCHANGED result
       ELSE /\ fail_json("invalid_arguments", EmptyDict)
            /\ UNCHANGED params
    /\ UNCHANGED <<variant, cache, args, check_mode, bridge, hue_config, thing_id,
                   ids_to_check, thing_state, target_states, final_states,
                   changed, failed, i, todo, target_thing, netlog, applied,
                   run, prev>>
    /\ UNCHANGED others

\* lines 232-241 (pyhue 230-240): get_config / h.get_state() answered
ConnectOk ==
    /\ pc = "connect"
    /\ netlog' = Append(netlog, Request("GET", <<>>, EmptyDict, get_config(bridge)))
    /\ hue_config' = get_config(bridge)
    /\ changed' = FALSE
    /\ failed' = FALSE
    /\ pc' = "resolve"
    /\ UNCHANGED <<variant, cache, args, check_mode, bridge, params, thing_id, ids_to_check,
                   thing_state, target_states, final_states, result, i, todo,
                   target_thing, applied, run, prev>>
    /\ UNCHANGED others

\* lines 232-237 (pyhue 230-236): get_config / h.get_state() raised
ConnectFail ==
    /\ pc = "connect"
    /\ netlog' = Append(netlog, Request("GET", <<>>, EmptyDict, EmptyDict))
    /\ fail_json("connect_failed", EmptyDict)
    /\ UNCHANGED <<variant, cache, args, check_mode, bridge, params, hue_config, thing_id,
                   ids_to_check, thing_state, target_states, final_states,
                   changed, failed, i, todo, target_thing, applied, run,
                   prev>>
    /\ UNCHANGED others

\* variant: a name nothing carries falls back to group 0
NameLookup_fallback(config, thing_name) ==
    LET ls == { l \in DOMAIN config.lights :
                    Some(config.lights[l].name) = thing_name }
        gs == { g \in DOMAIN config.groups :
                    Some(config.groups[g].name) = thing_name }
    IN IF ls # {} THEN { <<"l">> \o l : l \in ls }
       ELSE IF gs # {} THEN { <<"g">> \o g : g \in gs }
       ELSE {G0}

\* variant: groups are searched before lights
NameLookup_groupsFirst(config, thing_name) ==
    LET ls == { l \in DOMAIN config.lights :
                    Some(config.lights[l].name) = thing_name }
        gs == { g \in DOMAIN config.groups :
                    Some(config.groups[g].name) = thing_name }
    IN IF gs # {} THEN { <<"g">> \o g : g \in gs }
       ELSE { <<"l">> \o l : l \in ls }

\* lines 248-256: the ids a search by name may stop at (lights first; the
\* iteration order of a dict is not fixed, so any light of that name)
NameLookup(config, thing_name) ==
    LET ls == { l \in DOMAIN config.lights :
                    Some(config.lights[l].name) = thing_name }
        gs == { g \in DOMAIN config.groups :
                    Some(config.groups[g].name) = thing_name }
    IN IF ls # {} THEN { <<"l">> \o l : l \in ls }
       ELSE { <<"g">> \o g : g \in gs }

\* lines 269-273: the_thing
TheThing(config, tid) ==
    LET real_id == Slice1(tid) IN
    IF startswith(tid, "l")
    THEN IF real_id \in DOMAIN config.lights
         THEN Some(config.lights[real_id]) ELSE None
    ELSE IF real_id \in DOMAIN config.groups
         THEN Some(config.groups[real_id]) ELSE None

\* pyhue: the orders in which a dict may list the keys S
Orders(S) ==
    { o \in [1..Cardinality(S) -> S] :
        \A m \in 1..Cardinality(S), n \in 1..Cardinality(S) :
            o[m] = o[n] => m = n }

\* pyhue: keys of h.lights, 'l<id>' for every light of the bridge config
LightKeys(config) == { <<"l">> \o l : l \in DOMAIN config.lights }

\* variant: 'all' is every light of the config instead of group 0
Targeting_eachLight(tid) ==
    /\ thing_id' = tid
    /\ target_states' = EmptyDict
    /\ final_states' = EmptyDict
    /\ IF params["name"] = Some("all") \/ tid = Some(G0) \/ tid = Some(ALL)
       THEN /\ \E o \in Orders(LightKeys(hue_config)) : ids_to_check' = o
            /\ pc' = "read"
            /\ UNCHANGED result
       ELSE IF ~ (startswith(tid[1], "l") \/ startswith(tid[1], "g"))
       THEN /\ fail_json("invalid_name", EmptyDict)
            /\ UNCHANGED ids_to_check
       ELSE IF TheThing(hue_config, tid[1]) = None
       THEN /\ fail_json("not_found", EmptyDict)
            /\ UNCHANGED ids_to_check
       ELSE /\ ids_to_check' = <<tid[1]>>
            /\ pc' = "read"
            /\ UNCHANGED result

\* lines 262-280 for the thing_id tid (None or <<id>>)
Targeting(tid) ==
    /\ thing_id' = tid
    /\ target_states' = EmptyDict
    /\ final_states' = EmptyDict
    /\ IF params["name"] = Some("all") \/ tid = Some(G0) \/ tid = Some(ALL)
       THEN /\ ids_to_check' = <<G0>>
            /\ pc' = "read"
            /\ UNCHANGED result
       ELSE IF ~ (startswith(tid[1], "l") \/ startswith(tid[1], "g"))
       THEN /\ fail_json("invalid_name", EmptyDict)
            /\ UNCHANGED ids_to_check
       ELSE IF TheThing(hue_config, tid[1]) = None
       THEN /\ fail_json("not_found", EmptyDict)
            /\ UNCHANGED ids_to_check
       ELSE /\ ids_to_check' = <<tid[1]>>
            /\ pc' = "read"
            /\ UNCHANGED result

\* lines 243-280
Resolve ==
    /\ variant = "api"
    /\ pc = "resolve"
    /\ IF params["id"] = None /\ params["name"] # Some("all")
       THEN IF NameLookup(hue_config, params["name"]) = {}
            THEN /\ fail_json("no_such_name", EmptyDict)
                 /\ UNCHANGED <<thing_id, ids_to_check, target_states,
                                final_states>>
            ELSE \E t \in NameLookup(hue_config, params["name"]) :
                    Targeting(Some(t))
       ELSE Targeting(params["id"])
    /\ i' = 1
    /\ UNCHANGED <<variant, cache, args, check_mode, bridge, params, hue_config, thing_state,
                   changed, failed, todo, target_thing, netlog, applied, run,
                   prev>>
    /\ UNCHANGED others

\* variant: the reachable flag is not looked at
Reachable_ignored(obj) == TRUE

\* variant: an object without the flag counts as unreachable
Reachable_required(obj) ==
    IF "state" \in DOMAIN obj /\ "reachable" \in DOMAIN obj["state"]
    THEN obj["state"]["reachable"] ELSE FALSE

\* line 286: thing_state.get('state', {}).get('reachable', True)
Reachable(obj) ==
    IF "state" \in DOMAIN obj /\ "reachable" \in DOMAIN obj["state"]
    THEN obj["state"]["reachable"] ELSE TRUE

\* lines 290-293
SubState(id, obj) ==
    IF startswith(id, "l") THEN obj["state"] ELSE obj["action"]

\* where the loop at 284 goes after an iteration
NextRead(ts) ==
    IF i + 1 <= Len(ids_to_check)
    THEN /\ pc' = "read"
         /\ i' = i + 1
         /\ UNCHANGED todo
    ELSE /\ i' = i
         /\ todo' = DOMAIN ts
         /\ pc' = IF DOMAIN ts = {} THEN "finish" ELSE "apply"

\* lines 284-297: one iteration of the first loop
ReadCurrent ==
    /\ variant = "api"
    /\ pc = "read"
    /\ LET _id == ids_to_check[i]
           obj == get_state(bridge, _id)
       IN /\ netlog' = Append(netlog, Request("GET", get_state_url(_id), EmptyDict, obj))
          /\ thing_state' = obj
          /\ IF ~ Reachable(obj)
             THEN /\ final_states' = DictSet(final_states, _id, obj)
                  /\ failed' = TRUE
                  /\ NextRead(target_states)
                  /\ UNCHANGED <<changed, target_states, result>>
             ELSE LET b == build_state(params, SubState(_id, obj)) IN
                  IF b.err # ""
                  THEN /\ fail_json(b.err, EmptyDict)
                       /\ UNCHANGED <<changed, target_states, final_states,
                                      failed, i, todo>>
                  ELSE /\ changed' = (changed \/ b.changed)
                       /\ target_states' = DictSet(target_states, _id, b.state)
                       /\ NextRead(target_states')
                       /\ UNCHANGED <<final_states, failed, result>>
    /\ UNCHANGED <<variant, cache, args, check_mode, bridge, params, hue_config, thing_id,
                   ids_to_check, target_thing, applied, run, prev>>
    /\ UNCHANGED others

\* whether the target of a PUT may drop off the network: only a light
Losses(target) == IF startswith(target, "l") THEN BOOLEAN ELSE {FALSE}

\* variant: check mode does not hold the write back
ShouldWrite_unchecked(target_state) ==
    Cardinality(DOMAIN target_state) > 0

\* line 301
ShouldWrite(target_state) ==
    ~ check_mode /\ Cardinality(DOMAIN target_state) > 0

\* variant: the request of line 302 is sent a second time
SetState_twice ==
    /\ variant = "api"
    /\ pc = "apply"
    /\ \E t \in todo :
        /\ ShouldWrite(target_states[t])
        /\ target_thing' = t
        /\ \E res \in Responses, lost \in Losses(t) :
            /\ netlog' = Append(Append(netlog,
                                Request("PUT", set_state_url(t),
                                        target_states[t], res)),
                                Request("PUT", set_state_url(t),
                                        target_states[t], res))
            /\ bridge' = AfterPut(bridge, t, target_states[t], res, lost)
            /\ applied' = AllSuccess(res)
            /\ failed' = ~ check_success(res)
    /\ pc' = "readback"
    /\ UNCHANGED <<variant, cache, args, check_mode, params, hue_config, thing_id,
                   ids_to_check, thing_state, target_states, final_states,
                   changed, result, i, todo, run, prev>>
    /\ UNCHANGED others

\* lines 300-304: the write is made
SetState ==
    /\ variant = "api"
    /\ pc = "apply"
    /\ \E t \in todo :
        /\ ShouldWrite(target_states[t])
        /\ target_thing' = t
        /\ \E res \in Responses, lost \in Losses(t) :
            /\ netlog' = Append(netlog, Request("PUT", set_state_url(t),
                                                target_states[t], res))
            /\ bridge' = AfterPut(bridge, t, target_states[t], res, lost)
            /\ applied' = AllSuccess(res)
            /\ failed' = ~ check_success(res)
    /\ pc' = "readback"
    /\ UNCHANGED <<variant, cache, args, check_mode, params, hue_config, thing_id,
                   ids_to_check, thing_state, target_states, final_states,
                   changed, result, i, todo, run, prev>>
    /\ UNCHANGED others

\* lines 300-301: the write is skipped
SkipState ==
    /\ variant = "api"
    /\ pc = "apply"
    /\ \E t \in todo :
        /\ ~ ShouldWrite(target_states[t])
        /\ target_thing' = t
    /\ pc' = "readback"
    /\ UNCHANGED <<variant, cache, args, check_mode, bridge, params, hue_config, thing_id,
                   ids_to_check, thing_state, target_states, final_states,
                   changed, failed, result, i, todo, netlog, applied, run,
                   prev>>
    /\ UNCHANGED others

\* variant: the object fetched in the first loop is reported
ReadFinal_cached ==
    /\ variant = "api"
    /\ pc = "readback"
    /\ final_states' = DictSet(final_states, target_thing, thing_state)
    /\ todo' = todo \ {target_thing}
    /\ pc' = IF todo' = {} THEN "finish" ELSE "apply"
    /\ UNCHANGED <<variant, cache, args, check_mode, bridge, params, hue_config, thing_id,
                   ids_to_check, thing_state, target_states, changed, failed,
                   result, i, target_thing, netlog, applied, run, prev>>
    /\ UNCHANGED others

\* lines 306-307
ReadFinal ==
    /\ variant = "api"
    /\ pc = "readback"
    /\ netlog' = Append(netlog, Request("GET", get_state_url(target_thing),
                                        EmptyDict, get_state(bridge, target_thing)))
    /\ final_states' = DictSet(final_states, target_thing,
                               get_state(bridge, target_thing))
    /\ todo' = todo \ {target_thing}
    /\ pc' = IF todo' = {} THEN "finish" ELSE "apply"
    /\ UNCHANGED <<variant, cache, args, check_mode, bridge, params, hue_config, thing_id,
                   ids_to_check, thing_state, target_states, changed, failed,
                   result, i, target_thing, applied, run, prev>>
    /\ UNCHANGED others

\* pyhue lines 242-260
PH_Resolve ==
    /\ variant = "pyhue"
    /\ pc = "resolve"
    /\ target_states' = EmptyDict
    /\ final_states' = EmptyDict
    /\ i' = 1
    /\ IF params["name"] = Some(ALL)
       THEN /\ \E o \in Orders(LightKeys(hue_config)) : ids_to_check' = o
            /\ pc' = "read"
            /\ UNCHANGED result
       ELSE IF params["name"][1] \in LightKeys(hue_config)
       THEN /\ ids_to_check' = <<params["name"][1]>>
            /\ pc' = "read"
            /\ UNCHANGED result
       ELSE /\ fail_json("not_found", EmptyDict)
            /\ UNCHANGED ids_to_check
    /\ UNCHANGED <<variant, cache, args, check_mode, bridge, params,
                   hue_config, thing_id, thing_state, changed, failed, todo,
                   target_thing, netlog, applied, run, prev>>
    /\ UNCHANGED others

\* pyhue lines 264-273: one iteration of the first loop; build_state is
\* handed the_light.state, the object that holds the 'state' key
PH_ReadCurrent ==
    /\ variant = "pyhue"
    /\ pc = "read"
    /\ LET light_name == ids_to_check[i]
           obj == get_state(bridge, light_name)
       IN /\ netlog' = Append(netlog, Request("GET", get_state_url(light_name),
                                              EmptyDict, obj))
          /\ cache' = DictSet(cache, light_name, obj)
          /\ thing_state' = obj
          /\ IF ~ Reachable(obj)
             THEN /\ final_states' = DictSet(final_states, light_name, obj)
                  /\ failed' = TRUE
                  /\ NextRead(target_states)
                  /\ UNCHANGED <<changed, target_states, result>>
             ELSE LET b == build_state(params, obj) IN
                  IF b.err # ""
                  THEN /\ fail_json(b.err, EmptyDict)
                       /\ UNCHANGED <<changed, target_states, final_states,
                                      failed, i, todo>>
                  ELSE /\ changed' = (changed \/ b.changed)
                       /\ target_states' = DictSet(target_states, light_name,
                                                   b.state)
                       /\ NextRead(target_states')
                       /\ UNCHANGED <<final_states, failed, result>>
    /\ UNCHANGED <<variant, args, check_mode, bridge, params, hue_config,
                   thing_id, ids_to_check, target_thing, applied, run, prev>>
    /\ UNCHANGED others

\* pyhue lines 276-280: the_light.set_state(target_state)
PH_SetState ==
    /\ variant = "pyhue"
    /\ pc = "apply"
    /\ \E t \in todo :
        /\ ShouldWrite(target_states[t])
        /\ target_thing' = t
        /\ \E res \in Responses, lost \in Losses(t) :
            /\ netlog' = Append(netlog, Request("PUT", set_state_url(t),
                                                target_states[t], res))
            /\ bridge' = AfterPut(bridge, t, target_states[t], res, lost)
            /\ applied' = AllSuccess(res)
    /\ pc' = "refresh"
    /\ UNCHANGED <<variant, cache, args, check_mode, params, hue_config,
                   thing_id, ids_to_check, thing_state, target_states,
                   final_states, changed, failed, result, i, todo, run, prev>>
    /\ UNCHANGED others

\* variant: the flag is assigned, as at line 304 of the api module
MarkFailed_overwrite(f, unreachable) == unreachable

\* pyhue lines 282-283 (and 267-269): failed = True under the if
MarkFailed(f, unreachable) == f \/ unreachable

\* pyhue lines 281-286: update_state_cache() after the write
PH_Refresh ==
    /\ variant = "pyhue"
    /\ pc = "refresh"
    /\ LET obj == get_state(bridge, target_thing)
       IN /\ netlog' = Append(netlog, Request("GET", get_state_url(target_thing),
                                              EmptyDict, obj))
          /\ cache' = DictSet(cache, target_thing, obj)
          /\ failed' = MarkFailed(failed, ~ Reachable(obj))
          /\ final_states' = DictSet(final_states, target_thing, obj)
    /\ todo' = todo \ {target_thing}
    /\ pc' = IF todo' = {} THEN "finish" ELSE "apply"
    /\ UNCHANGED <<variant, args, check_mode, bridge, params, hue_config,
                   thing_id, ids_to_check, thing_state, target_states,
                   changed, result, i, target_thing, applied, run, prev>>
    /\ UNCHANGED others

\* pyhue lines 276-286 without the write: the cached state is reported
PH_SkipState ==
    /\ variant = "pyhue"
    /\ pc = "apply"
    /\ \E t \in todo :
        /\ ~ ShouldWrite(target_states[t])
        /\ target_thing' = t
        /\ final_states' = DictSet(final_states, t, cache[t])
        /\ todo' = todo \ {t}
    /\ pc' = IF todo' = {} THEN "finish" ELSE "apply"
    /\ UNCHANGED <<variant, cache, args, check_mode, bridge, params,
                   hue_config, thing_id, ids_to_check, thing_state,
                   target_states, changed, failed, result, i, netlog, applied,
                   run, prev>>
    /\ UNCHANGED others

\* lines 309-318 (pyhue 288-297)
Finish ==
    /\ pc = "finish"
    /\ IF failed
       THEN fail_json("failed_to_update", final_states)
       ELSE exit_json(changed, final_states)
    /\ UNCHANGED <<variant, cache, args, check_mode, bridge, params, hue_config, thing_id,
                   ids_to_check, thing_state, target_states, final_states,
                   changed, failed, i, todo, target_thing, netlog, applied,
                   run, prev>>
    /\ UNCHANGED others

\* a PUT is in the log
Wrote == \E k \in 1..Len(netlog) : netlog[k].method = "PUT"

\* the task runs again with the same arguments, with or without check mode
Reinvoke ==
    /\ pc = "done"
    /\ run < MaxRuns
    /\ run' = run + 1
    /\ prev' = [built |-> DOMAIN target_states # {}, check |-> check_mode,
                changed |-> changed, wrote |-> Wrote, applied |-> applied]
    /\ check_mode' \in BOOLEAN
    /\ pc' = "start"
    /\ params' = EmptyDict
    /\ hue_config' = EmptyDict
    /\ thing_id' = None
    /\ ids_to_check' = <<>>
    /\ thing_state' = EmptyDict
    /\ target_states' = EmptyDict
    /\ final_states' = EmptyDict
    /\ changed' = FALSE
    /\ failed' = FALSE
    /\ result' = NoResult
    /\ i' = 1
    /\ todo' = {}
    /\ target_thing' = EMPTY
    /\ netlog' = <<>>
    /\ applied' = FALSE
    /\ cache' = EmptyDict
    /\ UNCHANGED <<variant, args, bridge>>
    /\ UNCHANGED others

Next ==
    \/ ParseArgs
    \/ ConnectOk
    \/ ConnectFail
    \/ Resolve
    \/ ReadCurrent
    \/ SetState
    \/ SkipState
    \/ ReadFinal
    \/ PH_Resolve
    \/ PH_ReadCurrent
    \/ PH_SetState
    \/ PH_Refresh
    \/ PH_SkipState
    \/ Finish
    \/ Reinvoke

Spec == Init /\ [][Next]_vars

(***************************************************************************)
(* build_state on its own: one call with module.params of a request the   *)
(* front end lets through and the state sub-object of a reachable light    *)
(***************************************************************************)
\* options of the request of one call
MaxOptions == 2

BuildOptions ==
    Options \cup
    { <<"brightness", 100>>, <<"alert", "Select">>, <<"effect", "disco">>,
      <<"xy", <<2, 0>> >>, <<"color_temp", 300>>,
      <<"rgb", <<"0", "a", "0", "0", "1", "4">> >>,
      <<"rgb", <<"#", "0", "0", "0", "0", "0", "0">> >> }

BuildRequests ==
    { a \in { ArgsOf(BaseTarget, S) : S \in
                { T \in SUBSET BuildOptions :
                    /\ Cardinality(T) <= MaxOptions
                    /\ \A o1 \in T, o2 \in T : o1[1] = o2[1] => o1 = o2 } } :
        ArgsValid(a) }

\* state sub-objects a bridge reports for a reachable light
CurStates ==
    { [on |-> o, bri |-> 100, reachable |-> TRUE] @@ extra :
        o \in BOOLEAN,
        extra \in { EmptyDict,
                    [hue |-> 1000, sat |-> 200],
                    [hue |-> 1000, sat |-> 100, effect |-> "colorloop"],
                    [xy |-> <<0, 1>>, alert |-> "select"],
                    [ct |-> 600, transitiontime |-> 4],
                    [ct |-> 300, alert |-> "none"] } }

BuildInit ==
    /\ variant = "build"
    /\ args \in BuildRequests
    /\ params = ModuleParams(args)
    /\ thing_state \in CurStates
    /\ pc = "build"
    /\ cache = EmptyDict
    /\ check_mode = FALSE
    /\ bridge = EmptyDict
    /\ hue_config = EmptyDict
    /\ thing_id = None
    /\ ids_to_check = <<L1>>
    /\ target_states = EmptyDict
    /\ final_states = EmptyDict
    /\ changed = FALSE
    /\ failed = FALSE
    /\ result = NoResult
    /\ i = 1
    /\ todo = {}
    /\ target_thing = EMPTY
    /\ netlog = <<>>
    /\ applied = FALSE
    /\ run = 1
    /\ prev = NoPrev
    /\ host = EMPTY
    /\ num_retries = 0
    /\ time_left = 0
    /\ last_res = None

\* lines 130-207: the call returns (changed, thing_state) or ends in
\* fail_json
BuildState ==
    /\ pc = "build"
    /\ LET b == build_state(params, thing_state) IN
       IF b.err # ""
       THEN /\ fail_json(b.err, EmptyDict)
            /\ UNCHANGED <<changed, target_states>>
       ELSE /\ changed' = b.changed
            /\ target_states' = DictSet(EmptyDict, L1, b.state)
            /\ pc' = "built"
            /\ UNCHANGED result
    /\ UNCHANGED <<variant, cache, args, check_mode, bridge, params,
                   hue_config, thing_id, ids_to_check, thing_state,
                   final_states, failed, i, todo, target_thing, netlog,
                   applied, run, prev>>
    /\ UNCHANGED others

BuildNext == BuildState

BuildSpec == BuildInit /\ [][BuildNext]_vars

(***************************************************************************)
(* The token of a client: hashlib.md5("ph-%s" % socket.getfqdn())          *)
(***************************************************************************)
\* names socket.getfqdn() may return on a control host
Hosts == {"alpha.lan", "beta.lan"}

\* hashlib.md5(s).hexdigest(): the digest is told apart by the text hashed
md5(s) == [md5 |-> s]

\* the "%s-%s" formatting of two strings
Format(prefix, name) == <<prefix, "-", name>>

\* variant: the group client tags its token with its own prefix
Group_token_own(fqdn) == md5(Format("hg", fqdn))

\* hue_register.py line 65
Register_token(fqdn) == md5(Format("ph", fqdn))

\* module_utils/hue.py line 17
Hue_token(fqdn) == md5(Format("ph", fqdn))

\* hue_group.py line 103
Group_token(fqdn) == md5(Format("ph", fqdn))

\* hue_search.py line 66
Search_token(fqdn) == md5(Format("ph", fqdn))

(***************************************************************************)
(* hue_register: main of module-custom-api-module_utils/library/           *)
(* hue_register.py.  An answer of the bridge is "config" (a dict),         *)
(* "error_list" (a list whose first item has an 'error' key),              *)
(* "success_list", or "raised" when open_url or json.load raises.          *)
(***************************************************************************)
\* line 83
DefaultRetries == 6
\* line 84
DefaultRetryTime == 5
\* largest retries value a task of the model supplies
MaxRetries == 2

RegRequests ==
    { EmptyDict, [retry_time |-> 1] }
    \cup { [retries |-> n] : n \in 0..MaxRetries }

\* lines 80-87: module.params
RegParams(a) ==
    [retries |-> IF "retries" \in DOMAIN a THEN a["retries"] ELSE DefaultRetries,
     retry_time |-> IF "retry_time" \in DOMAIN a THEN a["retry_time"]
                    ELSE DefaultRetryTime]

ConfigAnswers == {"config", "error_list", "raised"}

CreateAnswers == {"success_list", "error_list", "raised"}

\* lines 67-70
Register_get_config(answer) ==
    Request("GET", <<"api", Register_token(host)>>, EmptyDict, answer)

\* lines 72-76
Register_create_user(answer) ==
    Request("POST", <<"api">>,
            [devicetype |-> "python-hue", username |-> Register_token(host)],
            answer)

\* time.sleep(seconds), kept in the log between the calls
Sleep(seconds) == Request("SLEEP", <<>>, seconds, "")

RegResult(status, c, message, config) ==
    [status |-> status, changed |-> c, msg |-> message, config |-> config]

RegInit ==
    /\ variant = "register"
    /\ host \in Hosts
    /\ args \in RegRequests
    /\ params = RegParams(args)
    /\ pc = "start"
    /\ num_retries = 0
    /\ changed = FALSE
    /\ hue_config = ""
    /\ last_res = None
    /\ result = RegResult("none", FALSE, "", "")
    /\ netlog = <<>>
    /\ time_left = 0
    /\ cache = EmptyDict
    /\ check_mode = FALSE
    /\ bridge = EmptyDict
    /\ thing_id = None
    /\ ids_to_check = <<>>
    /\ thing_state = EmptyDict
    /\ target_states = EmptyDict
    /\ final_states = EmptyDict
    /\ failed = FALSE
    /\ i = 1
    /\ todo = {}
    /\ target_thing = EMPTY
    /\ applied = FALSE
    /\ run = 1
    /\ prev = NoPrev

\* what no step of hue_register or hue_search touches
RegFixed ==
    <<variant, cache, args, check_mode, bridge, params, thing_id,
      ids_to_check, thing_state, target_states, final_states, failed, i,
      todo, target_thing, applied, run, prev, host>>

\* lines 93-102: the first get_config
RegConnect ==
    /\ pc = "start"
    /\ \E answer \in ConfigAnswers :
        /\ netlog' = Append(netlog, Register_get_config(answer))
        /\ IF answer = "config"
           THEN /\ hue_config' = answer
                /\ pc' = "done"
                /\ result' = RegResult("ok", FALSE, "already", answer)
                /\ UNCHANGED num_retries
           ELSE /\ num_retries' = params["retries"]
                /\ pc' = "loop"
                /\ UNCHANGED <<hue_config, result>>
    /\ UNCHANGED <<changed, last_res, time_left>>
    /\ UNCHANGED RegFixed

\* line 103: while num_retries >= 0
Retrying(n) == n >= 0

\* lines 103-107: hue.create_user()
RegCreateUser ==
    /\ pc = "loop"
    /\ Retrying(num_retries)
    /\ \E answer \in CreateAnswers :
        /\ netlog' = Append(netlog, Register_create_user(answer))
        /\ last_res' = Some(answer)
        /\ pc' = IF answer = "success_list" THEN "confirm" ELSE "retry"
    /\ UNCHANGED <<num_retries, changed, hue_config, result, time_left>>
    /\ UNCHANGED RegFixed

\* lines 108-111: the get_config after a create_user without an error;
\* its answer is not looked at
RegConfirm ==
    /\ pc = "confirm"
    /\ \E answer \in ConfigAnswers :
        /\ netlog' = Append(netlog, Register_get_config(answer))
        /\ IF answer = "raised"
           THEN /\ pc' = "retry"
                /\ UNCHANGED <<hue_config, changed>>
           ELSE /\ hue_config' = answer
                /\ changed' = TRUE
                /\ pc' = "after"
    /\ UNCHANGED <<num_retries, last_res, result, time_left>>
    /\ UNCHANGED RegFixed

\* lines 112-116: the except branch of the loop
RegRetry ==
    /\ pc = "retry"
    /\ netlog' = IF num_retries > 0
                 THEN Append(netlog, Sleep(params["retry_time"]))
                 ELSE netlog
    /\ num_retries' = num_retries - 1
    /\ pc' = "loop"
    /\ UNCHANGED <<changed, hue_config, last_res, result, time_left>>
    /\ UNCHANGED RegFixed

\* line 103: the loop condition is false
RegLoopExit ==
    /\ pc = "loop"
    /\ ~ Retrying(num_retries)
    /\ pc' = "after"
    /\ UNCHANGED <<num_retries, changed, hue_config, last_res, result,
                   netlog, time_left>>
    /\ UNCHANGED RegFixed

\* variant: the module exits with success whether or not changed was set
RegFinish_unchecked ==
    /\ pc = "after"
    /\ pc' = "done"
    /\ result' = RegResult("ok", changed, "successful", hue_config)
    /\ UNCHANGED <<num_retries, changed, hue_config, last_res, netlog,
                   time_left>>
    /\ UNCHANGED RegFixed

\* lines 118-121
RegFinish ==
    /\ pc = "after"
    /\ pc' = "done"
    /\ result' = IF ~ changed
                 THEN RegResult("fail", FALSE, "failed_to_connect", "")
                 ELSE RegResult("ok", changed, "successful", hue_config)
    /\ UNCHANGED <<num_retries, changed, hue_config, last_res, netlog,
                   time_left>>
    /\ UNCHANGED RegFixed

RegNext ==
    \/ RegConnect
    \/ RegCreateUser
    \/ RegConfirm
    \/ RegRetry
    \/ RegLoopExit
    \/ RegFinish

RegSpec == RegInit /\ [][RegNext]_vars

(***************************************************************************)
(* hue_search: class Hue and main of module-custom-api/library/            *)
(* hue_search.py                                                           *)
(***************************************************************************)
\* line 85: the timeout main leaves add_new_lights to default to
DefaultTimeout == 120
\* largest other timeout add_new_lights is called with in the model
MaxTimeout == 3

\* the task, and the timeout add_new_lights is called with
ScanRequests ==
    { [serial_numbers |-> <<"000001">>, timeout |-> t] :
        t \in (0..MaxTimeout) \cup {DefaultTimeout} }

\* open_url or json.load raised instead of returning a document
Raised == [raised |-> TRUE]

\* the document GET /api/<token> returns to a registered client
ConfigDoc == [lights |-> "lights", groups |-> "groups"]

\* the list a POST returns, its items given by their key sets
ListDoc(items) == [list |-> items]

\* documents GET /lights/new returns: a scan that runs, one that ended,
\* one that never ran, one without a lastscan field
ScanData ==
    { [lastscan |-> "active"],
      [lastscan |-> "2016-01-01T00:00:00", found |-> "3"],
      [lastscan |-> "none"],
      [found |-> "3"] }

\* lines 68-72
Search_check_success(r) ==
    ~ \E n \in 1..Len(r) : "failed" \in r[n]

\* lines 74-77
Search_get_config(answer) ==
    Request("GET", <<"api", Search_token(host)>>, EmptyDict, answer)

\* lines 79-83
search_for_lights(serial_numbers, answer) ==
    Request("POST", <<"lights">>, [deviceid |-> serial_numbers], answer)

\* lines 86, 89-90
Search_get_new(answer) ==
    Request("GET", <<"lights", "new">>, EmptyDict, answer)

\* line 91
Active(data) == "lastscan" \in DOMAIN data /\ data["lastscan"] = "active"

ScanInit ==
    /\ variant = "search"
    /\ host \in Hosts
    /\ args \in ScanRequests
    /\ params = [serial_numbers |-> args["serial_numbers"]]
    /\ pc = "start"
    /\ time_left = 0
    /\ last_res = None
    /\ hue_config = ""
    /\ result = RegResult("none", FALSE, "", "")
    /\ netlog = <<>>
    /\ num_retries = 0
    /\ changed = FALSE
    /\ cache = EmptyDict
    /\ check_mode = FALSE
    /\ bridge = EmptyDict
    /\ thing_id = None
    /\ ids_to_check = <<>>
    /\ thing_state = EmptyDict
    /\ target_states = EmptyDict
    /\ final_states = EmptyDict
    /\ failed = FALSE
    /\ i = 1
    /\ todo = {}
    /\ target_thing = EMPTY
    /\ applied = FALSE
    /\ run = 1
    /\ prev = NoPrev

\* lines 114-118
ScanConnect ==
    /\ pc = "start"
    /\ \E answer \in {ConfigDoc, Raised} :
        /\ netlog' = Append(netlog, Search_get_config(answer))
        /\ IF answer = Raised
           THEN /\ pc' = "done"
                /\ result' = RegResult("fail", FALSE, "failed_to_connect", "")
                /\ UNCHANGED hue_config
           ELSE /\ hue_config' = "config"
                /\ pc' = "search"
                /\ UNCHANGED result
    /\ UNCHANGED <<time_left, last_res, num_retries, changed>>
    /\ UNCHANGED RegFixed

\* lines 121-123 and 125 up to line 87 of add_new_lights
ScanSearch ==
    /\ pc = "search"
    /\ \E answer \in { ListDoc(r) : r \in Responses } \cup {Raised} :
        /\ netlog' = Append(netlog,
                search_for_lights(params["serial_numbers"], answer))
        /\ IF answer = Raised \/ ~ Search_check_success(answer["list"])
           THEN /\ pc' = "done"
                /\ result' = RegResult("fail", FALSE,
                        IF answer = Raised THEN "search_raised"
                        ELSE "search_failed", "")
                /\ UNCHANGED time_left
           ELSE /\ time_left' = args["timeout"]
                /\ pc' = "poll"
                /\ UNCHANGED result
    /\ UNCHANGED <<last_res, hue_config, num_retries, changed>>
    /\ UNCHANGED RegFixed

\* variant: the loop polls once more when the budget is used up
PollAgain_inclusive(t) == t >= 0

\* line 88: while time_left > 0
PollAgain(t) == t > 0

\* lines 88-96: one iteration of the loop of add_new_lights
ScanPoll ==
    /\ pc = "poll"
    /\ PollAgain(time_left)
    /\ \E data \in ScanData \cup {Raised} :
        IF data = Raised
        THEN /\ netlog' = Append(netlog, Search_get_new(data))
             /\ pc' = "done"
             /\ result' = RegResult("fail", FALSE, "poll_raised", "")
             /\ UNCHANGED <<time_left, last_res>>
        ELSE IF Active(data)
        THEN /\ netlog' = Append(Append(netlog, Search_get_new(data)), Sleep(1))
             /\ time_left' = time_left - 1
             /\ UNCHANGED <<pc, last_res, result>>
        ELSE /\ netlog' = Append(netlog, Search_get_new(data))
             /\ last_res' = Some(data)
             /\ pc' = "polled"
             /\ UNCHANGED <<time_left, result>>
    /\ UNCHANGED <<hue_config, num_retries, changed>>
    /\ UNCHANGED RegFixed

\* lines 88 and 98: the loop condition is false, add_new_lights returns None
ScanTimeout ==
    /\ pc = "poll"
    /\ ~ PollAgain(time_left)
    /\ last_res' = None
    /\ pc' = "polled"
    /\ UNCHANGED <<netlog, time_left, result, hue_config, num_retries, changed>>
    /\ UNCHANGED RegFixed

\* lines 126-132; the msg of a failure names the exception line 131 caught
ScanFinish ==
    /\ pc = "polled"
    /\ IF last_res = None
       THEN /\ result' = RegResult("fail", FALSE, "add_failed", "")
            /\ UNCHANGED <<netlog, hue_config>>
       ELSE \E answer \in {ConfigDoc, Raised} :
            /\ netlog' = Append(netlog, Search_get_config(answer))
            /\ IF answer = Raised
               THEN /\ result' = RegResult("fail", FALSE, "config_raised", "")
                    /\ UNCHANGED hue_config
               ELSE /\ hue_config' = "config"
                    /\ result' = RegResult("ok", TRUE, "completed", "config")
    /\ pc' = "done"
    /\ UNCHANGED <<time_left, last_res, num_retries, changed>>
    /\ UNCHANGED RegFixed

ScanNext ==
    \/ ScanConnect
    \/ ScanSearch
    \/ ScanPoll
    \/ ScanTimeout
    \/ ScanFinish

ScanSpec == ScanInit /\ [][ScanNext]_vars

(***************************************************************************)
(* The clients of the four modules on one control host: every invocation   *)
(* builds its Hue object and makes its first call with the token of that   *)
(* object; the bridge keeps the user names it registered.                  *)
(***************************************************************************)
\* invocations in one behaviour
MaxCalls == 4

\* the first call of a client: who made it, with which token, the answer
TokenCall(client, method, token, reply) ==
    [client |-> client, method |-> method, token |-> token, reply |-> reply]

\* the bridge's answer to GET /api/<token>
ConfigFor(b, token) ==
    IF token \in b["whitelist"] THEN ConfigDoc ELSE ListDoc(<< {"error"} >>)

TokenInit ==
    /\ variant = "clients"
    /\ host \in Hosts
    /\ bridge = [whitelist |-> {}]
    /\ netlog = <<>>
    /\ pc = "idle"
    /\ args = EmptyDict
    /\ params = EmptyDict
    /\ hue_config = ""
    /\ last_res = None
    /\ result = RegResult("none", FALSE, "", "")
    /\ time_left = 0
    /\ num_retries = 0
    /\ changed = FALSE
    /\ cache = EmptyDict
    /\ check_mode = FALSE
    /\ thing_id = None
    /\ ids_to_check = <<>>
    /\ thing_state = EmptyDict
    /\ target_states = EmptyDict
    /\ final_states = EmptyDict
    /\ failed = FALSE
    /\ i = 1
    /\ todo = {}
    /\ target_thing = EMPTY
    /\ applied = FALSE
    /\ run = 1
    /\ prev = NoPrev

\* what the first call of a client leaves alone
TokenFixed ==
    <<variant, host, pc, args, params, hue_config, last_res, result,
      time_left, num_retries, changed, cache, check_mode, thing_id,
      ids_to_check, thing_state, target_states, final_states, failed, i,
      todo, target_thing, applied, run, prev>>

\* hue_register.py lines 95 and 105: Hue(bridge=...) and create_user(),
\* which the bridge accepts while its link button is pressed
RegisterClient ==
    /\ Len(netlog) < MaxCalls
    /\ LET token == Register_token(host) IN
       \E pressed \in BOOLEAN :
        /\ bridge' = IF pressed
                     THEN [bridge EXCEPT !["whitelist"] = @ \cup {token}]
                     ELSE bridge
        /\ netlog' = Append(netlog, TokenCall("register", "POST", token,
                        ListDoc(IF pressed THEN << {"success"} >>
                                ELSE << {"error"} >>)))
    /\ UNCHANGED TokenFixed

\* library/hue.py lines 234-235: Hue(bridge=...) and get_config()
StateClient ==
    /\ Len(netlog) < MaxCalls
    /\ LET token == Hue_token(host) IN
       netlog' = Append(netlog, TokenCall("state", "GET", token,
                                          ConfigFor(bridge, token)))
    /\ UNCHANGED bridge
    /\ UNCHANGED TokenFixed

\* hue_group.py lines 210-211
GroupClient ==
    /\ Len(netlog) < MaxCalls
    /\ LET token == Group_token(host) IN
       netlog' = Append(netlog, TokenCall("group", "GET", token,
                                          ConfigFor(bridge, token)))
    /\ UNCHANGED bridge
    /\ UNCHANGED TokenFixed

\* hue_search.py lines 115-116
SearchClient ==
    /\ Len(netlog) < MaxCalls
    /\ LET token == Search_token(host) IN
       netlog' = Append(netlog, TokenCall("search", "GET", token,
                                          ConfigFor(bridge, token)))
    /\ UNCHANGED bridge
    /\ UNCHANGED TokenFixed

TokenNext ==
    \/ RegisterClient
    \/ StateClient
    \/ GroupClient
    \/ SearchClient

TokenSpec == TokenInit /\ [][TokenNext]_vars

(***************************************************************************)
(* hex2rgb on its own: one call with a string of the characters '#', 'f',  *)
(* '-' and 'g'                                                             *)
(***************************************************************************)
\* length of the longest string handed to hex2rgb
MaxHexLen == 8

\* a leading mark, a hexadecimal digit, a sign, a letter that is no digit
HexAlphabet == {"#", "f", "-", "g"}

HexInputs == UNION { [1..n -> HexAlphabet] : n \in 0..MaxHexLen }

HexInit ==
    /\ variant = "hex"
    /\ args \in HexInputs
    /\ pc = "hex"
    /\ result = NoResult
    /\ params = EmptyDict
    /\ thing_state = EmptyDict
    /\ cache = EmptyDict
    /\ check_mode = FALSE
    /\ bridge = EmptyDict
    /\ hue_config = EmptyDict
    /\ thing_id = None
    /\ ids_to_check = <<>>
    /\ target_states = EmptyDict
    /\ final_states = EmptyDict
    /\ changed = FALSE
    /\ failed = FALSE
    /\ i = 1
    /\ todo = {}
    /\ target_thing = EMPTY
    /\ netlog = <<>>
    /\ applied = FALSE
    /\ run = 1
    /\ prev = NoPrev
    /\ host = EMPTY
    /\ num_retries = 0
    /\ time_left = 0
    /\ last_res = None

\* lines 109-115: the call returns the three channels, or the assert or
\* int() raises
HexCall ==
    /\ pc = "hex"
    /\ LET c == hex2rgb(args) IN
       result' = IF c = None
                 THEN [status |-> "fail", rgb |-> <<>>]
                 ELSE [status |-> "ok", rgb |-> c[1]]
    /\ pc' = "done"
    /\ UNCHANGED <<variant, cache, args, check_mode, bridge, params,
                   hue_config, thing_id, ids_to_check, thing_state,
                   target_states, final_states, changed, failed, i, todo,
                   target_thing, netlog, applied, run, prev>>
    /\ UNCHANGED others

HexNext == HexCall

HexSpec == HexInit /\ [][HexNext]_vars

(***************************************************************************)
(* hue_group: class Hue, build_state and main of module-custom-api/        *)
(* library/hue_group.py.  A group id is a string of characters, a group    *)
(* config the dict {name, lights, type, class} the bridge keeps for it.    *)
(***************************************************************************)
\* lines 85-87
HUE_GROUP_TYPES == {"Luminaire", "Lightsource", "LightGroup", "Room"}

\* lines 89-93
HUE_GROUP_CLASSES ==
    {"Living room", "Kitchen", "Dining", "Bedroom", "Kids bedroom",
     "Bathroom", "Nursery", "Recreation", "Office", "Gym", "Hallway",
     "Toilet", "Front door", "Garage", "Terrace", "Garden", "Driveway",
     "Carport", "Other"}

\* line 95
Group_STATE_FIELDS == <<"name", "lights", "type", "class">>

\* an item of the lights list: an int (v is what str() makes of it), a
\* str, or a value of another type
IntItem(digits) == [t |-> "int", v |-> digits]

StrItem(s) == [t |-> "str", v |-> s]

OtherItem == [t |-> "other", v |-> <<>>]

\* lines 166-172: the id that one item of the list stands for
FinalLight(light) ==
    IF light.t = "int" THEN light.v
    ELSE IF startswith(light.v, "l") THEN Slice1(light.v)
    ELSE light.v

\* variant: a field the current config does not have is not compared
Group_build_state_presentOnly(p, cur_state) ==
    LET cur == IF cur_state = None THEN EmptyDict ELSE cur_state[1]
        s1 == IF ParamGet(p, "name") # None
              THEN DictSet(EmptyDict, "name", p["name"][1]) ELSE EmptyDict
        s2 == IF ParamGet(p, "type") # None
              THEN DictSet(s1, "type", p["type"][1]) ELSE s1
        s3 == IF ParamGet(p, "class") # None
              THEN DictSet(s2, "class", p["class"][1]) ELSE s2
        lights == ParamGet(p, "lights")
    IN IF lights # None
          /\ \E n \in 1..Len(lights[1]) : lights[1][n].t = "other"
       THEN [err |-> "invalid_light", changed |-> FALSE, state |-> EmptyDict]
       ELSE LET s4 == IF lights # None
                      THEN DictSet(s3, "lights",
                              [n \in 1..Len(lights[1]) |->
                                  FinalLight(lights[1][n])])
                      ELSE s3
            IN [err |-> "",
                changed |->
                    \E n \in 1..Len(Group_STATE_FIELDS) :
                        LET field == Group_STATE_FIELDS[n] IN
                        /\ field \in DOMAIN s4
                        /\ field \in DOMAIN cur
                        /\ cur[field] # s4[field],
                state |-> s4]

\* lines 137-186: [err, changed, state]; err # "" is a fail_json
Group_build_state(p, cur_state) ==
    LET cur == IF cur_state = None THEN EmptyDict ELSE cur_state[1]
        s1 == IF ParamGet(p, "name") # None
              THEN DictSet(EmptyDict, "name", p["name"][1]) ELSE EmptyDict
        s2 == IF ParamGet(p, "type") # None
              THEN DictSet(s1, "type", p["type"][1]) ELSE s1
        s3 == IF ParamGet(p, "class") # None
              THEN DictSet(s2, "class", p["class"][1]) ELSE s2
        lights == ParamGet(p, "lights")
    IN IF lights # None
          /\ \E n \in 1..Len(lights[1]) : lights[1][n].t = "other"
       THEN [err |-> "invalid_light", changed |-> FALSE, state |-> EmptyDict]
       ELSE LET s4 == IF lights # None
                      THEN DictSet(s3, "lights",
                              [n \in 1..Len(lights[1]) |->
                                  FinalLight(lights[1][n])])
                      ELSE s3
            IN [err |-> "",
                changed |->
                    \E n \in 1..Len(Group_STATE_FIELDS) :
                        LET field == Group_STATE_FIELDS[n] IN
                        /\ field \in DOMAIN s4
                        /\ (field \notin DOMAIN cur \/ cur[field] # s4[field]),
                state |-> s4]

\* lines 105-109
Group_check_success(r) ==
    ~ \E n \in 1..Len(r) : "error" \in r[n]

\* choices, mutually_exclusive and required_one_of of lines 190-203
Group_ArgsValid(a) ==
    /\ "state" \in DOMAIN a => a["state"] \in {"present", "absent"}
    /\ "group_type" \in DOMAIN a => a["group_type"] \in HUE_GROUP_TYPES
    /\ "group_class" \in DOMAIN a => a["group_class"] \in HUE_GROUP_CLASSES
    /\ ~ Exclusive(a, {"id", "name"})
    /\ DOMAIN a \cap {"id", "name"} # {}

\* lines 190-199: module.params, every option a key, with its default or
\* None when the task does not supply it
Group_ModuleParams(a) ==
    [k \in {"id", "name", "state", "lights", "group_type", "group_class"} |->
        IF k \in DOMAIN a THEN Some(a[k])
        ELSE IF k = "state" THEN Some("present")
        ELSE IF k = "group_type" THEN Some("LightGroup")
        ELSE IF k = "group_class" THEN Some("Other")
        ELSE None]

\* line 231: re.compile(r'^g?([0-9]+)$').match(group_id)
GroupIdMatches(s) ==
    LET d == IF startswith(s, "g") THEN Slice1(s) ELSE s
    IN Len(d) > 0 /\ \A n \in 1..Len(d) : HexVal(d[n]) \in 0..9

\* matched_group.group(n): 0 is the whole match, 1 the digits
MatchGroup(s, n) ==
    IF n = 0 THEN s
    ELSE IF startswith(s, "g") THEN Slice1(s) ELSE s

\* dict.get(k) on the groups of the config
GroupsGet(groups, k) == IF k \in DOMAIN groups THEN Some(groups[k]) ELSE None

\* lines 225-229: the ids the loop may stop at
GroupsNamed(groups, n) == { k \in DOMAIN groups : groups[k]["name"] = n }

(* the bridge of the group module *)
GroupConfig(name, lights, type, class) ==
    [name |-> name, lights |-> lights, type |-> type, class |-> class]

\* group ids the bridge hands out, lowest free one first
GroupIds == << <<"1">>, <<"2">>, <<"3">> >>

FreeIds(b) ==
    { n \in 1..Len(GroupIds) : GroupIds[n] \notin DOMAIN b.groups }

NewId(b) ==
    GroupIds[CHOOSE n \in FreeIds(b) : \A m \in FreeIds(b) : n <= m]

\* bridges with no group, with group 1, and with groups 1 and 2; the
\* bridge keeps the names of its groups distinct
GroupBridges ==
    { [groups |-> EmptyDict] }
    \cup { [groups |-> (<<"1">> :> GroupConfig("Den", ls, ty, cl))] :
            ls \in { << <<"1">> >>, << <<"1">>, <<"2">> >> },
            <<ty, cl>> \in { <<"LightGroup", "Other">>, <<"Room", "Kitchen">> } }
    \cup { [groups |-> (<<"1">> :> GroupConfig("Den", << <<"1">> >>,
                                               "LightGroup", "Other"))
                    @@ (<<"2">> :> GroupConfig("Attic", << <<"2">> >>,
                                               "Room", "Other"))] }

\* the bridge after it stored a new group with the fields of state
Created(b, state) ==
    [groups |-> (NewId(b) :>
                    DictUpdate(GroupConfig("", <<>>, "LightGroup", "Other"),
                               state, {"name", "lights", "type", "class"}))
                @@ b.groups]

\* the bridge after it stored the fields of state for group id
Updated(b, id, state) ==
    [groups |-> [b.groups EXCEPT ![id] =
                    DictUpdate(@, state, {"name", "lights", "type", "class"})]]

\* the bridge after it deleted group id
Deleted(b, id) ==
    [groups |-> [k \in DOMAIN b.groups \ {id} |-> b.groups[k]]]

\* answers to a POST, PUT or DELETE: a list of items, each given by its
\* key set
GroupResponses == { << {"success"} >>, << {"success"}, {"error"} >>, << {"error"} >> }

\* the task arguments drawn for the group module
GroupTargets ==
    { [id |-> x] : x \in {G1, <<"1">>, <<"2">>, G9, X1} }
    \cup { [name |-> n] : n \in {"Den", "Nook"} }
    \cup { EmptyDict, [id |-> <<"1">>, name |-> "Den"] }

GroupLights ==
    { << StrItem(L1) >>,
      << IntItem(<<"1">>), StrItem(L2) >>,
      << OtherItem >> }

GroupRequests ==
    { t @@ s @@ l @@ k :
        t \in GroupTargets,
        s \in { EmptyDict, [state |-> "absent"] },
        l \in { EmptyDict } \cup { [lights |-> x] : x \in GroupLights },
        k \in { EmptyDict, [group_type |-> "Room", group_class |-> "Kitchen"],
                [group_type |-> "Lamp"] } }

\* what exit_json / fail_json of the group module report; "crash" is an
\* exception nothing catches
GroupResult(status, c, message, group) ==
    [status |-> status, changed |-> c, msg |-> message, group |-> group]

GroupInit ==
    /\ variant = "group"
    /\ args \in GroupRequests
    /\ bridge \in GroupBridges
    /\ pc = "start"
    /\ params = EmptyDict
    /\ hue_config = EmptyDict
    /\ thing_id = None
    /\ thing_state = None
    /\ target_states = EmptyDict
    /\ changed = FALSE
    /\ failed = FALSE
    /\ result = GroupResult("none", FALSE, "", EmptyDict)
    /\ netlog = <<>>
    /\ last_res = None
    /\ run = 1
    /\ prev = [result |-> GroupResult("none", FALSE, "", EmptyDict),
               removed |-> FALSE]
    /\ cache = EmptyDict
    /\ check_mode = FALSE
    /\ ids_to_check = <<>>
    /\ final_states = EmptyDict
    /\ i = 1
    /\ todo = {}
    /\ target_thing = EMPTY
    /\ applied = FALSE
    /\ host = EMPTY
    /\ num_retries = 0
    /\ time_left = 0

\* what no step of hue_group touches
GroupFixed ==
    <<variant, cache, args, check_mode, ids_to_check, final_states, i, todo,
      target_thing, applied, host, num_retries, time_left>>

\* the process ends with a result
GroupEnd(status, c, message, group) ==
    /\ pc' = "done"
    /\ result' = GroupResult(status, c, message, group)

\* lines 190-206: the front end checks the arguments and fills
\* module.params
GroupParseArgs ==
    /\ variant = "group"
    /\ pc = "start"
    /\ IF Group_ArgsValid(args)
       THEN /\ params' = Group_ModuleParams(args)
            /\ pc' = "connect"
            /\ UNCHANGED result
       ELSE /\ GroupEnd("fail", FALSE, "invalid_arguments", EmptyDict)
            /\ UNCHANGED params
    /\ UNCHANGED <<bridge, hue_config, thing_id, thing_state, target_states,
                   changed, failed, netlog, last_res, run, prev>>
    /\ UNCHANGED GroupFixed

\* lines 209-217: hue.get_config() returns the config, raises, or returns
\* the error list a client that is not registered is sent
GroupConnect ==
    /\ variant = "group"
    /\ pc = "connect"
    /\ \E answer \in {[groups |-> bridge.groups], Raised,
                       ListDoc(<< {"error"} >>)} :
        /\ netlog' = Append(netlog, Request("GET", <<>>, EmptyDict, answer))
        /\ IF answer = Raised
           THEN /\ GroupEnd("fail", FALSE, "connect_failed", EmptyDict)
                /\ UNCHANGED hue_config
           ELSE /\ hue_config' = answer
                /\ pc' = "lookup"
                /\ UNCHANGED result
    /\ changed' = FALSE
    /\ failed' = FALSE
    /\ UNCHANGED <<bridge, params, thing_id, thing_state, target_states,
                   last_res, run, prev>>
    /\ UNCHANGED GroupFixed

\* lines 221-238: group_id and group_state; hue_config.get raises
\* AttributeError on the list an unregistered client is sent
GroupLookup ==
    /\ variant = "group"
    /\ pc = "lookup"
    /\ IF params["id"] = None
       THEN IF "groups" \notin DOMAIN hue_config
            THEN /\ GroupEnd("crash", FALSE, "AttributeError", EmptyDict)
                 /\ UNCHANGED <<thing_id, thing_state>>
            ELSE LET found == GroupsNamed(hue_config["groups"],
                                          params["name"][1])
                 IN /\ IF found = {}
                       THEN thing_id' = None /\ thing_state' = None
                       ELSE \E k \in found :
                            /\ thing_id' = Some(k)
                            /\ thing_state' = Some(hue_config["groups"][k])
                    /\ pc' = params["state"][1]
                    /\ UNCHANGED result
       ELSE IF ~ GroupIdMatches(params["id"][1])
            THEN /\ GroupEnd("fail", FALSE, "invalid_id", EmptyDict)
                 /\ UNCHANGED <<thing_id, thing_state>>
            ELSE IF "groups" \notin DOMAIN hue_config
            THEN /\ GroupEnd("crash", FALSE, "AttributeError", EmptyDict)
                 /\ UNCHANGED <<thing_id, thing_state>>
            ELSE /\ thing_id' = Some(MatchGroup(params["id"][1], 0))
                 /\ thing_state' = GroupsGet(hue_config["groups"],
                                             MatchGroup(params["id"][1], 0))
                 /\ pc' = params["state"][1]
                 /\ UNCHANGED result
    /\ UNCHANGED <<bridge, params, hue_config, target_states, changed,
                   failed, netlog, last_res, run, prev>>
    /\ UNCHANGED GroupFixed

\* variant: changed is set before the lookup result is looked at
GroupAbsent_changedFirst ==
    /\ variant = "group"
    /\ pc = "absent"
    /\ IF thing_state = None
       THEN /\ GroupEnd("ok", TRUE, "not_found", EmptyDict)
            /\ changed' = TRUE
            /\ UNCHANGED <<bridge, failed, netlog, last_res>>
       ELSE \E res \in GroupResponses :
            /\ changed' = TRUE
            /\ netlog' = Append(netlog,
                    Request("DELETE", <<"groups", thing_id[1]>>, EmptyDict,
                            ListDoc(res)))
            /\ bridge' = IF AllSuccess(res) THEN Deleted(bridge, thing_id[1])
                         ELSE bridge
            /\ last_res' = Some(res)
            /\ failed' = ~ Group_check_success(res)
            /\ IF ~ Group_check_success(res)
               THEN GroupEnd("crash", FALSE, "TypeError", EmptyDict)
               ELSE GroupEnd("ok", TRUE, "removed", EmptyDict)
    /\ UNCHANGED <<params, hue_config, thing_id, thing_state, target_states,
                   run, prev>>
    /\ UNCHANGED GroupFixed

\* lines 240-253; the format string of line 251 has two places for a
\* tuple of one, so the failure ends in a TypeError
GroupAbsent ==
    /\ variant = "group"
    /\ pc = "absent"
    /\ IF thing_state = None
       THEN /\ GroupEnd("ok", changed, "not_found", EmptyDict)
            /\ UNCHANGED <<bridge, changed, failed, netlog, last_res>>
       ELSE \E res \in GroupResponses :
            /\ changed' = TRUE
            /\ netlog' = Append(netlog,
                    Request("DELETE", <<"groups", thing_id[1]>>, EmptyDict,
                            ListDoc(res)))
            /\ bridge' = IF AllSuccess(res) THEN Deleted(bridge, thing_id[1])
                         ELSE bridge
            /\ last_res' = Some(res)
            /\ failed' = ~ Group_check_success(res)
            /\ IF ~ Group_check_success(res)
               THEN GroupEnd("crash", FALSE, "TypeError", EmptyDict)
               ELSE GroupEnd("ok", TRUE, "removed", EmptyDict)
    /\ UNCHANGED <<params, hue_config, thing_id, thing_state, target_states,
                   run, prev>>
    /\ UNCHANGED GroupFixed

\* lines 254-273: build_state, then create_group or update_group; the
\* answer to a POST names the id of the new group in its success item
GroupPresent ==
    /\ variant = "group"
    /\ pc = "present"
    /\ IF thing_id # None /\ params["name"] = None /\ thing_state = None
       THEN /\ GroupEnd("fail", FALSE, "not_found_no_name", EmptyDict)
            /\ UNCHANGED <<bridge, thing_id, target_states, changed, failed,
                           netlog, last_res>>
       ELSE LET b == Group_build_state(params, thing_state) IN
            IF b.err # ""
            THEN /\ GroupEnd("fail", FALSE, b.err, EmptyDict)
                 /\ UNCHANGED <<bridge, thing_id, target_states, changed,
                                failed, netlog, last_res>>
            ELSE IF thing_id = None /\ "lights" \notin DOMAIN b.state
            THEN /\ GroupEnd("fail", FALSE, "lights_required", EmptyDict)
                 /\ changed' = b.changed
                 /\ target_states' = b.state
                 /\ UNCHANGED <<bridge, thing_id, failed, netlog, last_res>>
            ELSE \E res \in GroupResponses :
                 /\ (thing_id = None /\ AllSuccess(res)) => FreeIds(bridge) # {}
                 /\ changed' = b.changed
                 /\ target_states' = b.state
                 /\ last_res' = Some(res)
                 /\ failed' = ~ Group_check_success(res)
                 /\ IF thing_id = None
                    THEN /\ netlog' = Append(netlog,
                                Request("POST", <<"groups">>, b.state,
                                    [list |-> res,
                                     id |-> IF AllSuccess(res)
                                            THEN NewId(bridge) ELSE <<>>]))
                         /\ bridge' = IF AllSuccess(res)
                                      THEN Created(bridge, b.state)
                                      ELSE bridge
                         /\ thing_id' = IF Group_check_success(res)
                                        THEN Some(NewId(bridge)) ELSE None
                    ELSE /\ netlog' = Append(netlog,
                                Request("PUT", <<"groups", thing_id[1]>>,
                                        b.state, ListDoc(res)))
                         /\ bridge' = IF AllSuccess(res)
                                      THEN Updated(bridge, thing_id[1], b.state)
                                      ELSE bridge
                         /\ UNCHANGED thing_id
                 /\ IF ~ Group_check_success(res)
                    THEN GroupEnd("fail", FALSE, "failed_to_create_update",
                                  EmptyDict)
                    ELSE pc' = "report" /\ UNCHANGED result
    /\ UNCHANGED <<params, hue_config, thing_state, run, prev>>
    /\ UNCHANGED GroupFixed

\* lines 274-275: the group is read back and reported
GroupReport ==
    /\ variant = "group"
    /\ pc = "report"
    /\ netlog' = Append(netlog,
            Request("GET", <<"groups", thing_id[1]>>, EmptyDict,
                    bridge.groups[thing_id[1]]))
    /\ GroupEnd("ok", changed, "", bridge.groups[thing_id[1]])
    /\ UNCHANGED <<bridge, params, hue_config, thing_id, thing_state,
                   target_states, changed, failed, last_res, run, prev>>
    /\ UNCHANGED GroupFixed

\* the group module removed a group in the running invocation
Removed ==
    \E k \in 1..Len(netlog) :
        netlog[k].method = "DELETE" /\ AllSuccess(netlog[k].reply["list"])

\* the task runs again with the same arguments
GroupReinvoke ==
    /\ variant = "group"
    /\ pc = "done"
    /\ run < MaxRuns
    /\ run' = run + 1
    /\ prev' = [result |-> result, removed |-> Removed]
    /\ pc' = "start"
    /\ params' = EmptyDict
    /\ hue_config' = EmptyDict
    /\ thing_id' = None
    /\ thing_state' = None
    /\ target_states' = EmptyDict
    /\ changed' = FALSE
    /\ failed' = FALSE
    /\ result' = GroupResult("none", FALSE, "", EmptyDict)
    /\ netlog' = <<>>
    /\ last_res' = None
    /\ UNCHANGED bridge
    /\ UNCHANGED GroupFixed

GroupNext ==
    \/ GroupParseArgs
    \/ GroupConnect
    \/ GroupLookup
    \/ GroupAbsent
    \/ GroupPresent
    \/ GroupReport
    \/ GroupReinvoke

GroupSpec == GroupInit /\ [][GroupNext]_vars

(***************************************************************************)
(* Properties                                                              *)
(***************************************************************************)
\* build_state returned for a target of the running invocation
Built == DOMAIN target_states # {}

\* main got past the argument check and the config GET
Resolving ==
    \/ pc \in {"read", "apply", "readback", "refresh", "finish"}
    \/ pc = "done" /\ result.msg \notin {"invalid_arguments", "connect_failed"}

\* main got past the first loop
PastRead ==
    \/ pc \in {"apply", "readback", "refresh", "finish"}
    \/ pc = "done" /\ result.msg \in {"", "failed_to_update"}

IsStateGet(r) == r.method = "GET" /\ r.url # <<>>

\* the fetched object says reachable: false
ReportsUnreachable(obj) ==
    /\ "state" \in DOMAIN obj
    /\ "reachable" \in DOMAIN obj["state"]
    /\ obj["state"]["reachable"] = FALSE

HasErrorItem(res) == \E n \in 1..Len(res) : "error" \in res[n]

\* the task asks for something the builder is to reject
InvalidRequest(a) ==
    \/ "alert" \in DOMAIN a /\ lower(a["alert"]) \notin {"none", "select", "lselect"}
    \/ "effect" \in DOMAIN a /\ lower(a["effect"]) \notin {"none", "colorloop"}
    \/ "xy" \in DOMAIN a /\ ~ XyValid(Some(a["xy"]))
    \/ "rgb" \in DOMAIN a /\ hex2rgb(a["rgb"]) = None

\* C1: when build_state reports changed = false for the target, no PUT is
\* issued in the invocation, in check mode and in normal mode alike.
C1_NoWriteWhenUnchanged ==
    (variant = "api" /\ Built /\ ~ changed) => ~ Wrote

\* C2: when the previous invocation wrote its delta and the bridge stored
\* every field as written, the next invocation with the same arguments
\* finds changed = false.
C2_Idempotent ==
    (variant = "api" /\ run > 1 /\ prev.wrote /\ prev.applied /\ Built) =>
        ~ changed

C2_Witness ==
    /\ variant = "api" /\ run > 1 /\ prev.wrote /\ prev.applied /\ prev.changed
    /\ Built /\ ~ changed /\ pc = "done" /\ result.status = "ok"

\* C3: an invocation in check mode issues no PUT, still reads the current
\* state and builds the delta, and reports the changed flag that the same
\* arguments against the same bridge state yield without check mode.
C3_DryRun ==
    /\ check_mode => ~ Wrote
    /\ (check_mode /\ PastRead) =>
            /\ \E k \in 1..Len(netlog) : IsStateGet(netlog[k])
            /\ Built \/ failed
    /\ (check_mode /\ pc = "done" /\ result.status = "ok") =>
            result.changed = changed
    /\ (run > 1 /\ prev.check /\ prev.built /\ ~ check_mode /\ Built) =>
            changed = prev.changed

C3_Witness ==
    /\ variant = "api" /\ run > 1 /\ prev.check /\ prev.built /\ prev.changed /\ ~ prev.wrote
    /\ ~ check_mode /\ Built /\ changed

\* C4: a target whose fetched state reports reachable = false receives no
\* PUT from then on in that invocation and is in the reported light_states
\* with the state that was fetched for it.
C4_Unreachable ==
    \A k \in 1..Len(netlog) :
        (IsStateGet(netlog[k]) /\ ReportsUnreachable(netlog[k].reply)) =>
            /\ \A j \in (k + 1)..Len(netlog) :
                    ~ (/\ netlog[j].method = "PUT"
                       /\ SubSeq(netlog[j].url, 1, 2) = netlog[k].url)
            /\ pc = "done" =>
                    \E id \in DOMAIN result.light_states :
                        /\ get_state_url(id) = netlog[k].url
                        /\ result.light_states[id] = netlog[k].reply

C4_Witness ==
    /\ pc = "done" /\ result.status = "fail"
    /\ L1 \in DOMAIN result.light_states
    /\ ReportsUnreachable(result.light_states[L1])
    /\ ~ check_mode /\ ~ Wrote

\* C5: a request the builder is to reject (invalid alert or effect, xy out
\* of bounds or malformed, invalid RGB hex string) ends in failure and no
\* PUT is issued at any point of the invocation.
C5_ValidateThenApply ==
    InvalidRequest(args) =>
        /\ ~ Wrote
        /\ pc = "done" => result.status = "fail"

\* C6: a validation error is detected before any network call: an
\* invocation with an invalid colour, xy or alert/effect value sends no
\* request of any kind to the bridge.
C6_ValidateBeforeNetwork ==
    InvalidRequest(args) => Len(netlog) = 0

\* the explicit id or the name of the task cannot be resolved in config:
\* an id other than 'all' and the reserved 'g0' with a prefix that is not
\* 'l' or 'g' or that names no light/group of config; a name other than
\* 'all' that no light and no group carries
Unresolvable(a, config) ==
    IF "id" \in DOMAIN a
    THEN /\ a["id"] \notin {ALL, G0}
         /\ \/ ~ (startswith(a["id"], "l") \/ startswith(a["id"], "g"))
            \/ startswith(a["id"], "l") /\ Slice1(a["id"]) \notin DOMAIN config.lights
            \/ startswith(a["id"], "g") /\ Slice1(a["id"]) \notin DOMAIN config.groups
    ELSE /\ a["name"] # "all"
         /\ \A l \in DOMAIN config.lights : config.lights[l].name # a["name"]
         /\ \A g \in DOMAIN config.groups : config.groups[g].name # a["name"]

\* C7: when the id or the name cannot be resolved, the invocation fails
\* and no state GET and no PUT is issued (the config GET is the only call).
C7_ResolveFailsFast ==
    (variant = "api" /\ Resolving /\ Unresolvable(args, hue_config)) =>
        /\ pc = "done" /\ result.status = "fail"
        /\ result.msg \in {"invalid_name", "not_found", "no_such_name"}
        /\ Len(netlog) = 1 /\ ~ IsStateGet(netlog[1]) /\ ~ Wrote

C7_Witness ==
    /\ variant = "api" /\ pc = "done" /\ result.msg = "invalid_name"
    /\ args["id"] = X1 /\ Len(netlog) = 1

\* the lights of config that carry the name n
LightsNamed(config, n) ==
    { l \in DOMAIN config.lights : config.lights[l].name = n }

\* C8: when a light and a group carry the requested name, resolving by
\* name selects the light; a group is selected only when no light has the
\* name.
C8_LightsBeforeGroups ==
    (variant = "api" /\ Resolving /\ "name" \in DOMAIN args
                     /\ args["name"] # "all" /\ thing_id # None) =>
        LET ls == LightsNamed(hue_config, args["name"]) IN
            /\ ls # {} => \E l \in ls : /\ thing_id = Some(<<"l">> \o l)
                                        /\ ids_to_check = << <<"l">> \o l >>
            /\ startswith(thing_id[1], "g") => ls = {}

C8_Witness ==
    /\ variant = "api" /\ Resolving /\ "name" \in DOMAIN args /\ args["name"] = "Lamp"
    /\ hue_config.groups[<<"1">>].name = "Lamp"
    /\ thing_id = Some(L1) /\ ids_to_check = <<L1>>

\* C9: every request that resolves yields exactly one target: name 'all',
\* id 'all', id 'g0' and a name that resolves to group 0 yield group 0;
\* any other request yields the one requested light or group.
C9_OneTarget ==
    (variant = "api" /\ pc \in {"read", "apply", "readback", "finish"}) =>
        /\ Len(ids_to_check) = 1
        /\ IF "id" \in DOMAIN args
           THEN ids_to_check[1] = (IF args["id"] = ALL THEN G0 ELSE args["id"])
           ELSE IF args["name"] = "all"
           THEN ids_to_check[1] = G0
           ELSE LET t == ids_to_check[1] IN
                IF startswith(t, "l")
                THEN hue_config.lights[Slice1(t)].name = args["name"]
                ELSE hue_config.groups[Slice1(t)].name = args["name"]

C9_Witness ==
    /\ variant = "api" /\ pc = "read" /\ "name" \in DOMAIN args /\ args["name"] = "House"
    /\ ids_to_check = <<G0>>

\* C10: whenever the answer to a PUT has an item with an 'error' key,
\* check_success is false for it and the invocation ends in failure.
C10_ErrorSurfaced ==
    \A k \in 1..Len(netlog) :
        (variant = "api" /\ netlog[k].method = "PUT"
                         /\ HasErrorItem(netlog[k].reply)) =>
            /\ ~ check_success(netlog[k].reply)
            /\ pc = "done" => result.status = "fail"

\* the GET of the first loop for the n-th requested target
FirstRead(n) == netlog[1 + n]

\* the first loop found a requested target unreachable (line 286, pyhue
\* 267), or the pyhue module found it so after the write (pyhue 282)
FoundUnreachable ==
    \E k \in 2..Len(netlog) :
        /\ IsStateGet(netlog[k]) /\ ReportsUnreachable(netlog[k].reply)
        /\ variant = "api" => k <= 1 + Len(ids_to_check)

\* the api module judged the answer to a PUT a failure (line 304)
WriteFailed ==
    /\ variant = "api"
    /\ \E k \in 1..Len(netlog) :
            netlog[k].method = "PUT" /\ ~ check_success(netlog[k].reply)

\* the PUTs of the invocation that went to target t
PutsTo(t) ==
    { k \in 1..Len(netlog) :
        netlog[k].method = "PUT" /\ netlog[k].url = set_state_url(t) }

C12_FinalCoverage ==
    (variant = "api" /\ pc = "done"
                     /\ result.msg \in {"", "failed_to_update"}) =>
        \A n \in 1..Len(ids_to_check) :
            LET t == ids_to_check[n] IN
            /\ t \in DOMAIN result.light_states
            /\ ~ ReportsUnreachable(FirstRead(n).reply) =>
                    \E k \in (2 + Len(ids_to_check))..Len(netlog) :
                        /\ IsStateGet(netlog[k])
                        /\ netlog[k].url = get_state_url(t)
                        /\ netlog[k].reply = result.light_states[t]
                        /\ \A j \in PutsTo(t) : j < k

C12_Witness ==
    /\ variant = "api" /\ pc = "done" /\ result.status = "fail"
    /\ ids_to_check = <<L1>> /\ PutsTo(L1) # {} /\ WriteFailed
    /\ result.light_states[L1] = netlog[Len(netlog)].reply
    /\ result.light_states[L1] # FirstRead(1).reply

\* the delta of the build_state call of BuildSpec
Delta == target_states[L1]

\* the colour-mode field groups that d populates
ColorGroups(d) ==
    { g \in { {"hue", "sat"}, {"xy"}, {"ct"} } : g \cap DOMAIN d # {} }

\* the request supplies the colour option k and none of the others
OnlyColor(a, k) ==
    DOMAIN a \cap {"hue", "saturation", "xy", "rgb", "color_temp"} = {k}

\* C13: for every request, also one with several colour parameters, the
\* delta build_state returns populates at most one of the field groups
\* {hue, sat}, {xy}, {ct} and has no 'rgb' field.
C13_ColorExclusive ==
    pc = "built" =>
        /\ Cardinality(ColorGroups(Delta)) <= 1
        /\ "rgb" \notin DOMAIN Delta

C13_Witness ==
    /\ pc = "built" /\ {"hue", "saturation"} \subseteq DOMAIN args
    /\ ColorGroups(Delta) = { {"hue", "sat"} }
    /\ {"hue", "sat"} \subseteq DOMAIN Delta

\* C14: for a request with a valid non-black rgb hex string and no hue,
\* saturation, xy or color_temp, build_state succeeds and the delta has xy
\* equal to rgb2xy of the channels hex2rgb decodes, and no hue, sat or ct.
C14_RgbToXy ==
    (pc # "build" /\ OnlyColor(args, "rgb") /\ hex2rgb(args["rgb"]) # None
        /\ hex2rgb(args["rgb"])[1] # <<0, 0, 0>>) =>
        LET c == hex2rgb(args["rgb"])[1] IN
        /\ pc = "built"
        /\ "xy" \in DOMAIN Delta
        /\ Some(Delta["xy"]) = rgb2xy(c[1], c[2], c[3])
        /\ DOMAIN Delta \cap {"hue", "sat", "ct"} = {}

\* C15: for a request with color_temp and no hue, saturation, xy or rgb,
\* the delta has ct equal to the requested value, also when the value is
\* outside 153..500, and the call does not fail.
C15_ColorTemp ==
    (pc # "build" /\ OnlyColor(args, "color_temp")) =>
        /\ pc = "built"
        /\ "ct" \in DOMAIN Delta
        /\ Delta["ct"] = args["color_temp"]

\* C16: for a request with xy and no hue, saturation, rgb or color_temp,
\* build_state fails the operation when xy is not a pair of numbers both
\* within [0, 1], and otherwise returns a delta whose xy is the pair.
C16_XyChecked ==
    (pc # "build" /\ OnlyColor(args, "xy")) =>
        IF XyValid(Some(args["xy"]))
        THEN /\ pc = "built"
             /\ "xy" \in DOMAIN Delta
             /\ Delta["xy"] = args["xy"]
        ELSE pc = "done" /\ result.status = "fail"

\* the fields change detection is to look at
CanonicalFields == {"on", "bri", "hue", "sat", "xy", "ct", "alert", "effect"}

\* C17: build_state returns changed = true exactly when a field of {on,
\* bri, hue, sat, xy, ct, alert, effect} is in the delta and differs from
\* the same field of the current state, a field the current state lacks
\* counting as different; transitiontime never makes changed true.
C17_ChangeScope ==
    pc = "built" =>
        (changed <=>
            \E f \in CanonicalFields \cap DOMAIN Delta :
                \/ f \notin DOMAIN thing_state
                \/ thing_state[f] # Delta[f])

C17_Witness ==
    /\ pc = "built" /\ ~ changed
    /\ "transitiontime" \in DOMAIN Delta
    /\ "transitiontime" \notin DOMAIN thing_state

C17_WitnessAbsent ==
    /\ pc = "built" /\ changed
    /\ Delta["on"] = thing_state["on"]
    /\ "hue" \in DOMAIN Delta /\ "hue" \notin DOMAIN thing_state
    /\ \A f \in (CanonicalFields \cap DOMAIN Delta) \ {"hue"} :
            f \in DOMAIN thing_state /\ thing_state[f] = Delta[f]

\* the create-user POSTs of the invocation
RegPosts == { k \in 1..Len(netlog) : netlog[k].method = "POST" }

\* an attempt of the loop succeeded: a POST without error followed by a
\* get_config that did not raise
RegSucceeded ==
    \E k \in RegPosts :
        /\ netlog[k].reply = "success_list"
        /\ k < Len(netlog) /\ netlog[k + 1].reply # "raised"

\* C18: when the bridge does not accept the token at the start, the module
\* makes at most 'retries' create-user POSTs (6 when the task gives none),
\* any two of them separated by a sleep of retry_time, and fails when none
\* of them succeeded.
C18_RetryBound ==
    variant = "register" =>
        /\ Cardinality(RegPosts) <= params["retries"]
        /\ \A j \in RegPosts, k \in RegPosts :
                j < k => \E m \in (j + 1)..(k - 1) :
                            /\ netlog[m].method = "SLEEP"
                            /\ netlog[m].body = params["retry_time"]
        /\ (pc = "done" /\ netlog[1].reply # "config" /\ ~ RegSucceeded) =>
                result.status = "fail"

\* the GETs of /lights/new that the bridge answered
Polls ==
    { k \in 1..Len(netlog) :
        /\ netlog[k].method = "GET" /\ netlog[k].url = <<"lights", "new">>
        /\ netlog[k].reply # Raised }

\* add_new_lights returned
Returned ==
    \/ pc = "polled"
    \/ pc = "done" /\ result.msg \in {"add_failed", "config_raised", "completed"}

\* C19: for every timeout and every sequence of answers, add_new_lights
\* makes at most 'timeout' GETs of /lights/new, returns the first answer
\* whose lastscan is not 'active' without polling again, and returns None
\* when every answer within the budget says 'active'.
C19_PollingBounded ==
    variant = "search" =>
        /\ Cardinality(Polls) <= args["timeout"]
        /\ \A k \in Polls :
                ~ Active(netlog[k].reply) =>
                    /\ \A j \in Polls : j <= k
                    /\ \A j \in Polls : j < k => Active(netlog[j].reply)
                    /\ Returned /\ last_res = Some(netlog[k].reply)
        /\ (Returned /\ \A k \in Polls : Active(netlog[k].reply)) =>
                /\ last_res = None
                /\ Cardinality(Polls) = args["timeout"]

C19_Witness ==
    /\ variant = "search" /\ args["timeout"] = DefaultTimeout
    /\ pc = "polled" /\ last_res = None
    /\ Cardinality(Polls) = DefaultTimeout

C19_WitnessFound ==
    /\ variant = "search" /\ pc = "polled"
    /\ Cardinality(Polls) = 2 /\ last_res = Some([found |-> "3"])

\* the bridge registered the token of call k
Registered(k) ==
    /\ netlog[k].client = "register"
    /\ netlog[k].reply = ListDoc(<< {"success"} >>)

\* C20: the token depends on the host name alone: every client built on
\* the host, of the register, light-state, group or search module, at any
\* point of the behaviour, presents the same token, so once hue_register
\* has registered its token the bridge accepts every other module.
C20_TokenDeterminism ==
    variant = "clients" =>
        /\ \A k \in 1..Len(netlog) :
                netlog[k].token = md5(Format("ph", host))
        /\ \A j \in 1..Len(netlog), k \in 1..Len(netlog) :
                netlog[j].token = netlog[k].token
        /\ \A j \in 1..Len(netlog), k \in 1..Len(netlog) :
                (j < k /\ Registered(j) /\ netlog[k].method = "GET") =>
                    netlog[k].reply = ConfigDoc

C20_Witness ==
    /\ variant = "clients" /\ Len(netlog) = 4 /\ Registered(1)
    /\ { netlog[k].client : k \in 2..4 } = {"state", "group", "search"}
    /\ \A k \in 2..4 : netlog[k].reply = ConfigDoc

\* the request asks for pure black: its rgb value decodes to (0, 0, 0)
BlackRequest == "rgb" \in DOMAIN args /\ hex2rgb(args["rgb"]) = Some(<<0, 0, 0>>)

\* C25: a request whose rgb value is pure black ends in a reported failure
\* of the operation: build_state returns no delta for it, so none with an
\* undefined xy and none that main could write.
C25_BlackFails ==
    (pc # "build" /\ BlackRequest) =>
        /\ pc = "done" /\ result.status = "fail"
        /\ target_states = EmptyDict

\* the bridge resource and the state key that the tag of target t selects
Resource(t) == IF t[1] = "l" THEN "lights" ELSE "groups"

StateKey(t) == IF t[1] = "l" THEN "state" ELSE "action"

\* C26: in an invocation of the api module every bridge call after the
\* config GET addresses the resource of the one resolved target: a GET
\* goes to /lights/{id} for a light and /groups/{id} for a group, a PUT to
\* /lights/{id}/state or /groups/{id}/action, always with the id of the
\* target; and changed is the comparison of the delta with the 'state'
\* sub-object of a light and the 'action' sub-object of a group.
C26_TargetTag ==
    variant = "api" =>
        /\ \A k \in 2..Len(netlog) :
            LET t == ids_to_check[1]
                r == netlog[k]
            IN /\ r.method \in {"GET", "PUT"}
               /\ r.method = "GET" => r.url = <<Resource(t), Tail(t)>>
               /\ r.method = "PUT" =>
                    r.url = <<Resource(t), Tail(t), StateKey(t)>>
        /\ (Built /\ Len(netlog) >= 2) =>
            LET t == ids_to_check[1] IN
            /\ DOMAIN target_states = {t}
            /\ changed = StateChanged(target_states[t],
                                      FirstRead(1).reply[StateKey(t)])

C26_Witness ==
    /\ variant = "api" /\ pc = "done" /\ result.status = "ok"
    /\ ids_to_check = <<G1>> /\ Len(netlog) = 4 /\ changed
    /\ netlog[2].url = <<"groups", <<"1">> >>
    /\ netlog[3].url = <<"groups", <<"1">>, "action">>
    /\ netlog[4].url = netlog[2].url
    /\ netlog[4].reply["action"] # netlog[2].reply["action"]

\* the state GETs of the invocation that went to target t
GetsOf(t) ==
    { k \in 2..Len(netlog) :
        IsStateGet(netlog[k]) /\ netlog[k].url = get_state_url(t) }

\* C29: in both variants the config GET is the first bridge call of an
\* invocation and the only one of its kind; a target gets at most one PUT,
\* the PUT carries the delta built for it and follows a state GET of that
\* target, and once the second loop is through a state GET of the target
\* follows the PUT; and for the request {on: true, brightness: 200} against
\* a light whose state is {on: false, bri: 100} the delta is exactly
\* {on: true, bri: 200} with changed = true.
C29_CallOrder ==
    /\ \A k \in 1..Len(netlog) :
            (netlog[k].method = "GET" /\ netlog[k].url = <<>>) <=> k = 1
    /\ \A k \in 1..Len(netlog) :
            netlog[k].method = "PUT" =>
                \E n \in 1..Len(ids_to_check) :
                    netlog[k].url = set_state_url(ids_to_check[n])
    /\ \A n \in 1..Len(ids_to_check) :
            LET t == ids_to_check[n] IN
            /\ Cardinality(PutsTo(t)) <= 1
            /\ \A k \in PutsTo(t) :
                /\ netlog[k].body = target_states[t]
                /\ \E j \in GetsOf(t) : j < k
                /\ pc \in {"finish", "done"} => \E j \in GetsOf(t) : j > k
    /\ (Built /\ ids_to_check = <<L1>>
              /\ DOMAIN args \ {"id", "name"} = {"brightness"}
              /\ args["brightness"] = 200
              /\ FirstRead(1).reply["state"]["on"] = FALSE
              /\ FirstRead(1).reply["state"]["bri"] = 100) =>
            /\ target_states[L1] = [on |-> TRUE, bri |-> 200]
            /\ changed

C29_Witness ==
    /\ variant = "api" /\ pc = "done" /\ result.status = "ok"
    /\ result.changed
    /\ ids_to_check = <<L1>> /\ DOMAIN args = {"id", "brightness"}
    /\ Len(netlog) = 4
    /\ netlog[2].method = "GET" /\ netlog[2].url = <<"lights", <<"1">> >>
    /\ netlog[2].reply["state"]["on"] = FALSE
    /\ netlog[3].method = "PUT" /\ netlog[3].body = [on |-> TRUE, bri |-> 200]
    /\ netlog[4].method = "GET" /\ netlog[4].url = netlog[2].url
    /\ result.light_states[L1] = netlog[4].reply

C29_WitnessAll ==
    /\ variant = "pyhue" /\ pc = "done" /\ ids_to_check = <<L1, L2>>
    /\ Len(netlog) = 7
    /\ PutsTo(L1) = {4} /\ PutsTo(L2) = {6}
    /\ GetsOf(L1) = {2, 5} /\ GetsOf(L2) = {3, 7}

\* the searches the invocation started
Searches == { k \in 1..Len(netlog) : netlog[k].method = "POST" }

\* every call of /lights/new, answered or not
NewLightGets ==
    { k \in 1..Len(netlog) :
        netlog[k].method = "GET" /\ netlog[k].url = <<"lights", "new">> }

\* C28: the search module starts at most one search; when the POST raised
\* or its answer is judged unsuccessful the module fails without a GET of
\* /lights/new; when the polling ran out of time the module fails with no
\* further POST or poll; and it reports success, with changed = true, only
\* after the bridge accepted the search (every item of the POST's answer
\* is a success) and a poll returned a scan that is no longer active.
C28_ScanFailure ==
    variant = "search" =>
        /\ Cardinality(Searches) <= 1
        /\ \A k \in Searches :
            (netlog[k].reply = Raised
                \/ ~ Search_check_success(netlog[k].reply["list"])) =>
                    /\ pc = "done" /\ result.status = "fail"
                    /\ NewLightGets = {}
        /\ (pc = "done" /\ result.msg = "add_failed") =>
                /\ result.status = "fail"
                /\ Cardinality(NewLightGets) = args["timeout"]
                /\ \A k \in Searches : \A j \in NewLightGets : k < j
        /\ (pc = "done" /\ result.status = "ok") =>
                /\ result.changed
                /\ \E k \in Searches : AllSuccess(netlog[k].reply["list"])
                /\ \E k \in Polls : ~ Active(netlog[k].reply)

\* the get_config calls that returned a document
ConfigGets ==
    { k \in 1..Len(netlog) :
        /\ netlog[k].method = "GET" /\ netlog[k].url # <<>>
        /\ netlog[k].reply # "raised" }

\* attempt k of the loop succeeded: the POST returned no error and the
\* get_config after it returned
AttemptOk(k) ==
    /\ netlog[k].reply = "success_list"
    /\ k + 1 \in ConfigGets

\* C30: when the first get_config returns a document that is not an error
\* list, hue_register makes no create-user POST and reports changed =
\* false; otherwise the first attempt whose POST returns no error and whose
\* get_config returns is the last one and the module reports changed =
\* true; the module fails only after the loop ran out with no attempt
\* having succeeded; and a reported success carries the document of a
\* get_config that returned.
C30_Outcomes ==
    (variant = "register" /\ Len(netlog) >= 1) =>
        /\ netlog[1].reply = "config" =>
                /\ RegPosts = {}
                /\ pc = "done" /\ result.status = "ok" /\ ~ result.changed
        /\ \A k \in RegPosts :
                AttemptOk(k) =>
                    /\ \A j \in RegPosts : j <= k
                    /\ \A j \in RegPosts : j < k => ~ AttemptOk(j)
                    /\ Len(netlog) = k + 1
                    /\ pc = "done" => result.status = "ok" /\ result.changed
        /\ (pc = "done" /\ result.status = "fail") =>
                /\ netlog[1].reply # "config"
                /\ \A k \in RegPosts : ~ AttemptOk(k)
                /\ ~ Retrying(num_retries)
        /\ (pc = "done" /\ result.status = "ok") =>
                /\ ConfigGets # {}
                /\ \E k \in ConfigGets :
                    /\ result.config = netlog[k].reply
                    /\ \A j \in ConfigGets : j <= k

C30_Witness ==
    /\ variant = "register" /\ pc = "done"
    /\ result.status = "ok" /\ result.changed
    /\ Cardinality(RegPosts) = 3
    /\ netlog[1].reply = "raised"
    /\ \E k \in RegPosts : AttemptOk(k) /\ Len(netlog) = k + 1
    /\ \E k \in RegPosts :
            netlog[k].reply = "success_list" /\ netlog[k + 1].reply = "raised"

C30_WitnessAlready ==
    /\ variant = "register" /\ pc = "done" /\ Len(netlog) = 1
    /\ result.status = "ok" /\ ~ result.changed /\ result.msg = "already"

\* s consists of exactly six hexadecimal digits
SixHexDigits(s) == Len(s) = 6 /\ \A n \in 1..6 : HexVal(s[n]) >= 0

\* s with one leading '#' removed, if it has one
WithoutMark(s) == IF Len(s) > 0 /\ s[1] = "#" THEN Tail(s) ELSE s

\* C27: hex2rgb returns channels for a string exactly when six hexadecimal
\* digits remain after one optional leading '#' is removed, every channel
\* it returns is an integer in 0..255, and it rejects every other string.
C27_HexFormat ==
    (variant = "hex" /\ pc = "done") =>
        /\ result.status = "ok" <=> SixHexDigits(WithoutMark(args))
        /\ result.status = "ok" =>
                \A n \in 1..3 : result.rgb[n] \in 0..255

\* the running invocation of the group module asks for this state
GroupAsks(s) ==
    variant = "group" /\ params # EmptyDict /\ params["state"] = Some(s)

\* the requests of the given methods in the log
CallsOf(methods) == { k \in 1..Len(netlog) : netlog[k].method \in methods }

\* C21: in the group module with state = present, when the group was found
\* on the bridge and build_state reports changed = false, no POST and no
\* PUT is sent to the bridge.
C21_NoWriteWhenEqual ==
    (GroupAsks("present") /\ thing_state # None /\ ~ changed) =>
        CallsOf({"POST", "PUT"}) = {}

\* the digits of a group id given as 'gX' or 'X'
BridgeId(id) == IF startswith(id, "g") THEN Slice1(id) ELSE id

\* main is past the lookup of lines 221-236
GroupLookedUp ==
    \/ pc \in {"absent", "present", "report"}
    \/ pc = "done" /\ result.msg \notin
            {"invalid_arguments", "connect_failed", "AttributeError",
             "invalid_id"}

\* C22: for a bridge whose config has a group with id X, the group module
\* invoked with id 'gX' or with id 'X' finds that group: after the lookup
\* group_state is the config of group X.
C22_LookupById ==
    (variant = "group" /\ GroupLookedUp /\ "id" \in DOMAIN args
        /\ GroupIdMatches(args["id"])
        /\ BridgeId(args["id"]) \in DOMAIN hue_config["groups"]) =>
            thing_state = Some(hue_config["groups"][BridgeId(args["id"])])

\* C23: with state = absent the module sends at most one DELETE; when the
\* lookup found no group (for a name or an id 'X': when the config has no
\* such group) it sends none and reports changed = false; when it found the
\* group it sends one DELETE for that group's id and, the bridge answering
\* without an error, reports changed = true; and the invocation that
\* follows a successful removal with the same arguments finds no group,
\* sends no DELETE and reports changed = false.
C23_RemovalIdempotent ==
    (GroupAsks("absent") /\ GroupLookedUp) =>
        LET Dels == CallsOf({"DELETE"})
            groups == hue_config["groups"]
        IN /\ CallsOf({"POST", "PUT"}) = {}
           /\ Cardinality(Dels) <= 1
           /\ "name" \in DOMAIN args =>
                (thing_state = None <=> GroupsNamed(groups, args["name"]) = {})
           /\ ("id" \in DOMAIN args /\ ~ startswith(args["id"], "g")) =>
                (thing_state = None <=> args["id"] \notin DOMAIN groups)
           /\ pc = "done" =>
                IF thing_state = None
                THEN /\ Dels = {}
                     /\ result.status = "ok" /\ ~ result.changed
                ELSE /\ Cardinality(Dels) = 1
                     /\ \A k \in Dels :
                        /\ netlog[k].url = <<"groups", thing_id[1]>>
                        /\ thing_state = Some(groups[thing_id[1]])
                        /\ Group_check_success(netlog[k].reply["list"]) =>
                                result.status = "ok" /\ result.changed
           /\ (run > 1 /\ prev.removed /\ pc = "done") =>
                /\ Dels = {}
                /\ result.status = "ok" /\ ~ result.changed

C23_Witness ==
    /\ GroupAsks("absent") /\ run = 2 /\ pc = "done"
    /\ "name" \in DOMAIN args
    /\ prev.removed /\ prev.result.changed /\ prev.result.msg = "removed"
    /\ result.status = "ok" /\ ~ result.changed /\ result.msg = "not_found"
    /\ Len(netlog) = 1

C23_WitnessRemoved ==
    /\ GroupAsks("absent") /\ run = 1 /\ pc = "done"
    /\ "id" \in DOMAIN args /\ args["id"] = <<"2">>
    /\ result.changed /\ Removed
    /\ netlog[2].url = <<"groups", <<"2">> >>
    /\ DOMAIN bridge.groups = { <<"1">> }

\* C24: the object the group module sends on create or update has 'type'
\* equal to the group_type parameter and 'class' equal to the group_class
\* parameter, defaults included, and when the group exists with another
\* type or class than requested, build_state reports changed = true.
C24_TypeAndClass ==
    (GroupAsks("present") /\ GroupLookedUp) =>
        /\ \A k \in CallsOf({"POST", "PUT"}) :
            /\ {"type", "class"} \subseteq DOMAIN netlog[k].body
            /\ netlog[k].body["type"] = params["group_type"][1]
            /\ netlog[k].body["class"] = params["group_class"][1]
        /\ (thing_state # None /\ pc \in {"report", "done"}
                /\ result.status # "fail"
                /\ (thing_state[1]["type"] # params["group_type"][1]
                    \/ thing_state[1]["class"] # params["group_class"][1])) =>
                changed

\* C31: in the group module with state = present and a name that no group
\* of the config carries, no PUT is sent, a create POST is sent only for a
\* request with a lights list and carries that list, a request without
\* lights fails with no POST sent, and when the module ends in success the
\* bridge accepted the POST and changed = true is reported.
C31_CreatePrecondition ==
    (GroupAsks("present") /\ GroupLookedUp /\ "name" \in DOMAIN args
        /\ thing_state = None) =>
        /\ GroupsNamed(hue_config["groups"], args["name"]) = {}
        /\ CallsOf({"PUT"}) = {}
        /\ \A k \in CallsOf({"POST"}) :
            /\ "lights" \in DOMAIN args
            /\ "lights" \in DOMAIN netlog[k].body
            /\ netlog[k].body["name"] = args["name"]
        /\ ("lights" \notin DOMAIN args /\ pc # "present") =>
            /\ pc = "done" /\ result.status = "fail"
            /\ CallsOf({"POST"}) = {}
        /\ (pc = "done" /\ result.status = "ok") =>
            /\ result.changed
            /\ \E k \in CallsOf({"POST"}) :
                /\ Group_check_success(netlog[k].reply["list"])
                /\ thing_id = Some(netlog[k].reply["id"])
            /\ result.group["name"] = args["name"]

C31_Witness ==
    /\ GroupAsks("present") /\ run = 1 /\ pc = "done"
    /\ "name" \in DOMAIN args /\ args["name"] = "Nook"
    /\ thing_state = None
    /\ result.status = "ok" /\ result.changed
    /\ Len(netlog) = 3 /\ netlog[2].method = "POST"
    /\ netlog[2].body = [name |-> "Nook", lights |-> << <<"1">>, <<"2">> >>]
    /\ \E k \in DOMAIN bridge.groups : bridge.groups[k]["name"] = "Nook"

C31_WitnessNoLights ==
    /\ GroupAsks("present") /\ pc = "done" /\ thing_state = None
    /\ "name" \in DOMAIN args /\ "lights" \notin DOMAIN args
    /\ result.status = "fail" /\ result.msg = "lights_required"
    /\ Len(netlog) = 1

\* C32: in both variants every delta build_state returned has the field
\* 'on', and every PUT of a state carries a body with that field, so no
\* empty state object is sent.
C32_DeltaHasOn ==
    /\ \A t \in DOMAIN target_states : "on" \in DOMAIN target_states[t]
    /\ \A k \in 1..Len(netlog) :
            netlog[k].method = "PUT" =>
                /\ netlog[k].body # EmptyDict
                /\ "on" \in DOMAIN netlog[k].body

C32_Witness ==
    /\ variant = "api" /\ DOMAIN args = {"id"} /\ pc = "done"
    /\ PutsTo(L1) # {}
    /\ \A k \in PutsTo(L1) : netlog[k].body = [on |-> TRUE]

\* C33: in the api module a group target, whose fetched object has
\* 'action' and no 'state', is never found unreachable at the read step:
\* the read leaves failed unset, the delta is built for the group, and
\* outside check mode the group is written, whether or not the lights of
\* the bridge are reachable; failed is set only by the judgement of the
\* PUT's answer.
C33_GroupAlwaysReachable ==
    (variant = "api" /\ PastRead /\ startswith(ids_to_check[1], "g")) =>
        LET t == ids_to_check[1] IN
        /\ "state" \notin DOMAIN FirstRead(1).reply
        /\ t \in DOMAIN target_states
        /\ failed => WriteFailed
        /\ (~ check_mode /\ pc \in {"finish", "done"}) => PutsTo(t) # {}

C33_Witness ==
    /\ variant = "api" /\ pc = "done" /\ result.status = "ok"
    /\ ids_to_check = <<G0>> /\ PutsTo(G0) # {}
    /\ ~ bridge.lights[<<"1">>].state.reachable
    /\ G0 \in DOMAIN result.light_states

\* C34: in the python-hue variant changed is the comparison of each delta
\* with the 'state' sub-object of the light it was built for, so that a
\* reachable light whose on and bri equal the request yields changed =
\* false.
C34_ComparesSubState ==
    (variant = "pyhue" /\ PastRead) =>
        (changed <=>
            \E n \in 1..Len(ids_to_check) :
                /\ ids_to_check[n] \in DOMAIN target_states
                /\ StateChanged(target_states[ids_to_check[n]],
                                FirstRead(n).reply["state"]))

====
